---- MODULE Spec2Model ----
(***************************************************************************)
(* Verification model of the 1-D TDSE simulator core:                      *)
(*   - the parameter store (lib/parameters.ts) and the ParameterControls   *)
(*     handlers that write it,                                             *)
(*   - the expression evaluators of lib/potentials.ts, lib/wavefunctions.ts*)
(*     and lib/tdse-solver.ts (regex rewriting + JavaScript evaluation),   *)
(*   - the potential generators (lib/potentials.ts),                       *)
(*   - the split-operator solver TDSESolver and the wavefunction           *)
(*     initializers (lib/tdse-solver.ts).                                  *)
(*                                                                         *)
(* Conventions.                                                            *)
(*   Strings are sequences of one-character strings, so that the regular   *)
(*   expressions of the source (word boundaries, look-ahead, global        *)
(*   replace) are modelled character by character.                         *)
(*   A JavaScript number is an exact rational [k |-> "rat", n, d], or      *)
(*   NaN, or +/-Infinity, or "irr": a finite value of a transcendental     *)
(*   function whose digits are not tracked.                                *)
(***************************************************************************)
EXTENDS Integers, Sequences, FiniteSets, TLC

VARIABLES
  parameters,  \* ParameterControls: the ParameterSet held in props.parameters
  error,       \* ParameterControls: the add-form error message
  solver,      \* the TDSESolver instance (a record of its fields) or NoSolver
  state,       \* the caller's WavefunctionState or NoState
  outcome,     \* what the last solver-level call did: returned or threw
  call,        \* the call just made, its arguments and result; NoCall once
               \* the caller has taken the result
  app          \* App: config, drawnPoints, potential and the saved file; or
               \* NoApp where the solver is used without the App

vars == <<parameters, error, solver, state, outcome, call, app>>

paramVars == <<parameters, error>>
solverVars == <<solver, state, outcome>>
exprVars == <<call>>
appVars == <<app>>

(***************************************************************************)
(* Characters and strings                                                  *)
(***************************************************************************)
LowerSeq == <<"a","b","c","d","e","f","g","h","i","j","k","l","m",
              "n","o","p","q","r","s","t","u","v","w","x","y","z">>
UpperSeq == <<"A","B","C","D","E","F","G","H","I","J","K","L","M",
              "N","O","P","Q","R","S","T","U","V","W","X","Y","Z">>
DigitSeq == <<"0","1","2","3","4","5","6","7","8","9">>

Range(s) == {s[i] : i \in DOMAIN s}

Lower == Range(LowerSeq)
Upper == Range(UpperSeq)
Letters == Lower \cup Upper
Digits == Range(DigitSeq)
\* \w of a JavaScript regular expression (no u flag): [A-Za-z0-9_]
WordChars == Letters \cup Digits \cup {"_"}
\* \s restricted to the characters the model's inputs contain
SpaceChars == {" "}

IsWordAt(s, p) == p \in DOMAIN s /\ s[p] \in WordChars

\* \b at the gap before position p (1 <= p <= Len(s)+1)
BoundaryBefore(s, p) == IsWordAt(s, p - 1) # IsWordAt(s, p)

ToLowerChar(c) ==
  IF c \in Upper THEN LowerSeq[CHOOSE i \in DOMAIN UpperSeq : UpperSeq[i] = c] ELSE c

ToLowerCase(s) == [i \in DOMAIN s |-> ToLowerChar(s[i])]

\* String.prototype.includes
Includes(s, sub) ==
  \E i \in 1..(Len(s) - Len(sub) + 1) : SubSeq(s, i, i + Len(sub) - 1) = sub

\* String.prototype.trim, then the test for the empty string
TrimIsEmpty(s) == \A i \in DOMAIN s : s[i] \in SpaceChars

(***************************************************************************)
(* JavaScript numbers                                                      *)
(***************************************************************************)
Abs(i) == IF i < 0 THEN -i ELSE i
Sign(i) == IF i < 0 THEN -1 ELSE IF i > 0 THEN 1 ELSE 0

RECURSIVE GCD(_, _)
GCD(a, b) == IF b = 0 THEN a ELSE GCD(b, a % b)

RECURSIVE IntPow(_, _)
IntPow(b, e) == IF e = 0 THEN 1 ELSE b * IntPow(b, e - 1)

\* the rational n/d (d # 0) in lowest terms with a positive denominator
Rat(n, d) ==
  LET g == GCD(Abs(n), Abs(d))
  IN  [k |-> "rat", n |-> (Sign(d) * n) \div g, d |-> Abs(d) \div g]

N(i) == [k |-> "rat", n |-> i, d |-> 1]
NaN == [k |-> "nan", n |-> 0, d |-> 0]
Inf(s) == [k |-> "inf", n |-> s, d |-> 0]
Irr == [k |-> "irr", n |-> 0, d |-> 0]

IsRat(v) == v.k = "rat"
IsZero(v) == v.k = "rat" /\ v.n = 0
IsInteger(v) == v.k = "rat" /\ v.d = 1
\* isFinite(v) for a value of type number
IsFinite(v) == v.k \in {"rat", "irr"}

\* the sign of a number; an untracked value counts as positive
Sgn(v) == IF v.k = "irr" THEN 1 ELSE Sign(v.n)

\* a < b (false when either is NaN); both are rational or infinite
Lt(a, b) ==
  CASE a.k = "nan" \/ b.k = "nan" -> FALSE
    [] a.k = "inf" /\ b.k = "inf" -> a.n < b.n
    [] a.k = "inf" -> a.n < 0
    [] b.k = "inf" -> b.n > 0
    [] OTHER -> a.n * b.d < b.n * a.d

Leq(a, b) == a.k # "nan" /\ b.k # "nan" /\ ~Lt(b, a)

MathMax(a, b) ==
  IF a.k = "nan" \/ b.k = "nan" THEN NaN ELSE IF Lt(a, b) THEN b ELSE a
MathMin(a, b) ==
  IF a.k = "nan" \/ b.k = "nan" THEN NaN ELSE IF Lt(b, a) THEN b ELSE a

Neg(a) ==
  CASE a.k = "rat" -> [a EXCEPT !.n = -a.n]
    [] a.k = "inf" -> Inf(-a.n)
    [] OTHER -> a

Add(a, b) ==
  CASE a.k = "nan" \/ b.k = "nan" -> NaN
    [] a.k = "inf" /\ b.k = "inf" -> IF a.n = b.n THEN a ELSE NaN
    [] a.k = "inf" -> a
    [] b.k = "inf" -> b
    [] a.k = "irr" \/ b.k = "irr" -> Irr
    [] OTHER -> Rat(a.n * b.d + b.n * a.d, a.d * b.d)

Sub(a, b) == Add(a, Neg(b))

Mul(a, b) ==
  CASE a.k = "nan" \/ b.k = "nan" -> NaN
    [] a.k = "inf" \/ b.k = "inf" ->
         IF IsZero(a) \/ IsZero(b) THEN NaN ELSE Inf(Sgn(a) * Sgn(b))
    [] IsZero(a) \/ IsZero(b) -> N(0)
    [] a.k = "irr" \/ b.k = "irr" -> Irr
    [] OTHER -> Rat(a.n * b.n, a.d * b.d)

Div(a, b) ==
  CASE a.k = "nan" \/ b.k = "nan" -> NaN
    [] a.k = "inf" -> IF b.k = "inf" THEN NaN
                      ELSE Inf(a.n * (IF Sgn(b) < 0 THEN -1 ELSE 1))
    [] b.k = "inf" -> N(0)
    [] IsZero(b) -> IF IsZero(a) THEN NaN ELSE Inf(Sgn(a))
    [] IsZero(a) -> N(0)
    [] a.k = "irr" \/ b.k = "irr" -> Irr
    [] OTHER -> Rat(a.n * b.d, a.d * b.n)

\* a % b: the remainder takes the sign of the dividend
Mod(a, b) ==
  CASE a.k = "nan" \/ b.k = "nan" \/ a.k = "inf" \/ IsZero(b) -> NaN
    [] b.k = "inf" -> a
    [] a.k = "irr" \/ b.k = "irr" -> Irr
    [] OTHER ->
         LET num == Abs(a.n) * b.d
             den == Abs(b.n) * a.d
         IN  Rat(Sign(a.n) * (num % den), a.d * b.d)

\* a ** b
Pow(a, b) ==
  CASE IsZero(b) -> N(1)
    [] a.k = "nan" \/ b.k = "nan" -> NaN
    [] b.k = "inf" \/ a.k = "inf" \/ a.k = "irr" \/ b.k = "irr" ->
         IF a.k = "rat" /\ Abs(a.n) = a.d THEN (IF a.n > 0 /\ b.k # "inf" THEN N(1) ELSE NaN)
         ELSE IF a.k = "inf" \/ b.k = "inf" THEN
           (IF (Sgn(b) > 0) = (a.k = "inf" \/ Abs(a.n) > a.d) THEN Inf(1) ELSE N(0))
         ELSE IF Sgn(a) < 0 THEN NaN ELSE Irr
    [] b.d = 1 /\ b.n > 0 -> Rat(IntPow(a.n, b.n), IntPow(a.d, b.n))
    [] b.d = 1 -> IF a.n = 0 THEN Inf(1)
                  ELSE Rat(IntPow(a.d, -b.n), IntPow(a.n, -b.n))
    [] OTHER -> IF a.n < 0 THEN NaN ELSE IF a.n = 0 THEN (IF b.n > 0 THEN N(0) ELSE Inf(1))
                ELSE IF a.n = a.d THEN N(1) ELSE Irr

(***************************************************************************)
(* Number to string: the template literal `${value}`                       *)
(***************************************************************************)
RECURSIVE DigitsOf(_)
DigitsOf(m) ==
  IF m < 10 THEN <<DigitSeq[m + 1]>>
  ELSE Append(DigitsOf(m \div 10), DigitSeq[(m % 10) + 1])

Zeros(c) == [i \in 1..c |-> "0"]

\* the number of decimals of n/d: the least e with d | 10^e (d = 2^a * 5^b)
DecimalPlaces(d) ==
  CHOOSE e \in 0..24 :
    /\ IntPow(10, e) % d = 0
    /\ \A f \in 0..(e - 1) : IntPow(10, f) % d # 0

\* Number::toString(v), radix 10, of NaN, +/-Infinity and the decimal
\* fractions below 10^21
NumberToString(v) ==
  CASE v.k = "nan" -> <<"N","a","N">>
    [] v.k = "inf" ->
         (IF v.n < 0 THEN <<"-">> ELSE <<>>) \o <<"I","n","f","i","n","i","t","y">>
    [] v.k = "rat" ->
         LET e == DecimalPlaces(v.d)
             digs == DigitsOf((Abs(v.n) * IntPow(10, e)) \div v.d)
             kk == Len(digs)
             pt == kk - e
             body ==
               IF e = 0 THEN digs
               ELSE IF pt > 0 THEN SubSeq(digs, 1, pt) \o <<".">> \o SubSeq(digs, pt + 1, kk)
               ELSE IF pt > -6 THEN <<"0", ".">> \o Zeros(-pt) \o digs
               ELSE <<digs[1]>> \o (IF kk > 1 THEN <<".">> \o SubSeq(digs, 2, kk) ELSE <<>>)
                    \o <<"e", "-">> \o DigitsOf(1 - pt)
         IN  (IF v.n < 0 THEN <<"-">> ELSE <<>>) \o body

\* `(${v})`
Parenthesised(v) == <<"(">> \o NumberToString(v) \o <<")">>

(***************************************************************************)
(* Regular expressions of the source, character by character               *)
(***************************************************************************)
\* the first position >= p that holds no white space (Len(s)+1 at the end)
RECURSIVE SkipSpaces(_, _)
SkipSpaces(s, p) ==
  IF p \in DOMAIN s /\ s[p] \in SpaceChars THEN SkipSpaces(s, p + 1) ELSE p

\* s holds w at position p, case-sensitively or not
HoldsAt(s, p, w, ci) ==
  /\ p + Len(w) - 1 <= Len(s)
  /\ \A j \in DOMAIN w :
       IF ci THEN ToLowerChar(s[p + j - 1]) = ToLowerChar(w[j]) ELSE s[p + j - 1] = w[j]

\* Patterns: "word" is /\bw\b/, "wordci" is /\bw\b/i, "call" is /\bw\s*\(/,
\* "char" is the literal w.  The length of the match at p, 0 when none.
\* A version of "word" without its word boundaries is MutMatchLen.
MutMatchLen(pat, s, p) ==
  IF HoldsAt(s, p, pat.w, FALSE) THEN Len(pat.w) ELSE 0

MatchLen(pat, s, p) ==
  CASE pat.kind \in {"word", "wordci"} ->
         IF /\ HoldsAt(s, p, pat.w, pat.kind = "wordci")
            /\ BoundaryBefore(s, p)
            /\ BoundaryBefore(s, p + Len(pat.w))
         THEN Len(pat.w) ELSE 0
    [] pat.kind = "call" ->
         LET q == SkipSpaces(s, p + Len(pat.w))
         IN  IF /\ HoldsAt(s, p, pat.w, FALSE)
                /\ BoundaryBefore(s, p)
                /\ q \in DOMAIN s /\ s[q] = "("
             THEN q - p + 1 ELSE 0
    [] pat.kind = "char" -> IF HoldsAt(s, p, pat.w, FALSE) THEN Len(pat.w) ELSE 0

\* s.replace(/pat/g, r), scanning from position p
RECURSIVE ReplaceFrom(_, _, _, _)
ReplaceFrom(s, p, pat, r) ==
  IF p > Len(s) THEN <<>>
  ELSE LET len == MatchLen(pat, s, p)
       IN  IF len > 0 THEN r \o ReplaceFrom(s, p + len, pat, r)
           ELSE <<s[p]>> \o ReplaceFrom(s, p + 1, pat, r)

Replace(s, pat, r) == ReplaceFrom(s, 1, pat, r)

Word(w) == [kind |-> "word", w |-> w]
WordCI(w) == [kind |-> "wordci", w |-> w]
CallOf(w) == [kind |-> "call", w |-> w]
Char(w) == [kind |-> "char", w |-> w]

(***************************************************************************)
(* new Function('Math', `return ${evalExpr}`)(Math)                        *)
(*                                                                         *)
(* The JavaScript expression grammar over the alphabet the rewritten       *)
(* expressions are written in: decimal literals, identifiers, member       *)
(* access, calls, parentheses, unary + and -, the binary operators         *)
(* + - * / % ** and the comma.  As in ECMAScript, a unary operator may not *)
(* be the left operand of **.  Any other character, "++" and "--", and a   *)
(* literal with an exponent part are outside the model's inputs and are    *)
(* treated as a SyntaxError.  Math is the only binding in scope besides    *)
(* the globals NaN, Infinity and undefined.                                *)
(***************************************************************************)
Tok(t, v, str) == [t |-> t, v |-> v, s |-> str]
BadTok == Tok("bad", NaN, <<>>)

RECURSIVE DigitEnd(_, _)
\* the position of the last digit of the digit run that starts at p (p-1 when empty)
DigitEnd(s, p) ==
  IF p \in DOMAIN s /\ s[p] \in Digits THEN DigitEnd(s, p + 1) ELSE p - 1

DigitVal(c) == (CHOOSE i \in DOMAIN DigitSeq : DigitSeq[i] = c) - 1

RECURSIVE DigitsValue(_, _, _)
\* the value of the digits s[p..q]
DigitsValue(s, p, q) ==
  IF q < p THEN 0 ELSE DigitsValue(s, p, q - 1) * 10 + DigitVal(s[q])

RECURSIVE WordEnd(_, _)
WordEnd(s, p) ==
  IF p + 1 \in DOMAIN s /\ s[p + 1] \in WordChars THEN WordEnd(s, p + 1) ELSE p

Punctuators == {"+", "-", "*", "/", "%", "(", ")", ".", ","}

RECURSIVE Tokenize(_, _)
Tokenize(s, p) ==
  IF p > Len(s) THEN <<>>
  ELSE IF s[p] \in SpaceChars THEN Tokenize(s, p + 1)
  ELSE IF s[p] \in Digits \/ (s[p] = "." /\ p + 1 \in DOMAIN s /\ s[p + 1] \in Digits) THEN
    LET ie == DigitEnd(s, p)
        hasDot == ie + 1 \in DOMAIN s /\ s[ie + 1] = "."
        fe == IF hasDot THEN DigitEnd(s, ie + 2) ELSE ie
        val == Rat(DigitsValue(s, p, ie) * IntPow(10, fe - ie - 1) + DigitsValue(s, ie + 2, fe),
                   IntPow(10, IF hasDot THEN fe - ie - 1 ELSE 0))
    IN  IF fe + 1 \in DOMAIN s /\ s[fe + 1] \in WordChars
          THEN <<BadTok>>
          ELSE <<Tok("num", IF hasDot THEN val ELSE N(DigitsValue(s, p, ie)), <<>>)>>
               \o Tokenize(s, fe + 1)
  ELSE IF s[p] \in Letters \cup {"_"} THEN
    LET q == WordEnd(s, p)
    IN  <<Tok("id", NaN, SubSeq(s, p, q))>> \o Tokenize(s, q + 1)
  ELSE IF p + 1 \in DOMAIN s /\ s[p] = s[p + 1] /\ s[p] \in {"*", "+", "-"} THEN
    IF s[p] = "*" THEN <<Tok("op", NaN, <<"*", "*">>)>> \o Tokenize(s, p + 2)
    ELSE <<BadTok>>
  ELSE IF s[p] \in Punctuators THEN <<Tok("op", NaN, <<s[p]>>)>> \o Tokenize(s, p + 1)
  ELSE <<BadTok>>

\* values of the evaluation that are not numbers
MathObject == [k |-> "math", n |-> 0, d |-> 0]
Undefined == [k |-> "undef", n |-> 0, d |-> 0]
FunctionValue(name) == [k |-> "fn", n |-> 0, d |-> 0, f |-> name]

IsNumber(v) == v.k \in {"rat", "nan", "inf", "irr"}
\* ToNumber of an operand (an object, a function or undefined gives NaN)
ToNumber(v) == IF IsNumber(v) THEN v ELSE NaN

IsSquare(i) == \E r \in 0..i : r * r = i
ISqrt(i) == CHOOSE r \in 0..i : r * r = i

MathFunctions ==
  { <<"s","i","n">>, <<"c","o","s">>, <<"t","a","n">>, <<"s","i","n","h">>,
    <<"c","o","s","h">>, <<"t","a","n","h">>, <<"e","x","p">>, <<"s","q","r","t">>,
    <<"a","b","s">>, <<"l","o","g">> }

\* Math.f(a): exact where the result is rational, "irr" where it is a finite
\* irrational
MathCall(f, a) ==
  IF a.k = "nan" THEN NaN
  ELSE IF f \in {<<"s","i","n">>, <<"t","a","n">>} THEN
    (IF a.k = "inf" THEN NaN ELSE IF IsZero(a) THEN N(0) ELSE Irr)
  ELSE IF f = <<"c","o","s">> THEN
    (IF a.k = "inf" THEN NaN ELSE IF IsZero(a) THEN N(1) ELSE Irr)
  ELSE IF f = <<"s","i","n","h">> THEN
    (IF a.k = "inf" THEN a ELSE IF IsZero(a) THEN N(0) ELSE Irr)
  ELSE IF f = <<"c","o","s","h">> THEN
    (IF a.k = "inf" THEN Inf(1) ELSE IF IsZero(a) THEN N(1) ELSE Irr)
  ELSE IF f = <<"t","a","n","h">> THEN
    (IF a.k = "inf" THEN N(a.n) ELSE IF IsZero(a) THEN N(0) ELSE Irr)
  ELSE IF f = <<"e","x","p">> THEN
    (IF a.k = "inf" THEN (IF a.n > 0 THEN a ELSE N(0)) ELSE IF IsZero(a) THEN N(1) ELSE Irr)
  ELSE IF f = <<"s","q","r","t">> THEN
    (IF a.k = "inf" THEN (IF a.n > 0 THEN a ELSE NaN)
     ELSE IF a.k = "irr" THEN Irr
     ELSE IF a.n < 0 THEN NaN
     ELSE IF IsSquare(a.n) /\ IsSquare(a.d) THEN Rat(ISqrt(a.n), ISqrt(a.d)) ELSE Irr)
  ELSE IF f = <<"a","b","s">> THEN
    (IF a.k = "inf" THEN Inf(1) ELSE IF a.k = "irr" THEN Irr ELSE Rat(Abs(a.n), a.d))
  ELSE \* log
    (IF a.k = "inf" THEN (IF a.n > 0 THEN a ELSE NaN)
     ELSE IF a.k = "irr" THEN Irr
     ELSE IF a.n < 0 THEN NaN
     ELSE IF a.n = 0 THEN Inf(-1)
     ELSE IF a.n = a.d THEN N(0) ELSE Irr)

\* a parse-and-evaluate result: ok, the value, the next token position
Res(v, i) == [ok |-> TRUE, v |-> v, i |-> i]
Fail == [ok |-> FALSE, v |-> NaN, i |-> 0]

IsOp(ts, i, c) == i \in DOMAIN ts /\ ts[i].t = "op" /\ ts[i].s = c

ResolveIdentifier(name) ==
  CASE name = <<"M","a","t","h">> -> Res(MathObject, 0)
    [] name = <<"N","a","N">> -> Res(NaN, 0)
    [] name = <<"I","n","f","i","n","i","t","y">> -> Res(Inf(1), 0)
    [] name = <<"u","n","d","e","f","i","n","e","d">> -> Res(Undefined, 0)
    [] OTHER -> Fail   \* ReferenceError

\* obj.name
MemberOf(obj, name) ==
  IF obj.k = "undef" THEN Fail   \* TypeError
  ELSE IF obj.k = "math" /\ name \in MathFunctions THEN Res(FunctionValue(name), 0)
  ELSE IF obj.k = "math" /\ name \in {<<"P","I">>, <<"E">>} THEN Res(Irr, 0)
  ELSE Res(Undefined, 0)

\* The recursive-descent reading of the expression.  Parse(nt, ts, i, left)
\* parses the nonterminal nt of the token list ts from position i; the
\* nonterminals named ...Rest continue the left operand `left`, and Arguments
\* carries in `left` the first argument read so far.
\*   Expression:     Additive (, Additive)*
\*   Additive:       Multiplicative ((+|-) Multiplicative)*
\*   Multiplicative: Exponentiation ((*|/|%) Exponentiation)*
\*   Exponentiation: Unary | Postfix ** Exponentiation
\*   Unary:          (+|-) Unary | Postfix
\*   Postfix:        Primary (. name | ( Arguments )*
\*   Primary:        number | name | ( Expression )
\* "-a ** b" is a SyntaxError: a unary expression is no left operand of **.
RECURSIVE Parse(_, _, _, _)
Parse(nt, ts, i, left) ==
  CASE nt = "Expression" ->
         LET a == Parse("Additive", ts, i, Fail)
         IN  IF a.ok THEN Parse("ExpressionRest", ts, a.i, a) ELSE Fail
    [] nt = "ExpressionRest" ->
         IF IsOp(ts, i, <<",">>) THEN
           LET b == Parse("Additive", ts, i + 1, Fail)
           IN  IF b.ok THEN Parse("ExpressionRest", ts, b.i, b) ELSE Fail
         ELSE left
    [] nt = "Additive" ->
         LET a == Parse("Multiplicative", ts, i, Fail)
         IN  IF a.ok THEN Parse("AdditiveRest", ts, a.i, a) ELSE Fail
    [] nt = "AdditiveRest" ->
         IF IsOp(ts, i, <<"+">>) \/ IsOp(ts, i, <<"-">>) THEN
           LET b == Parse("Multiplicative", ts, i + 1, Fail)
               l == ToNumber(left.v)
           IN  IF ~b.ok THEN Fail
               ELSE Parse("AdditiveRest", ts, b.i,
                          Res(IF ts[i].s = <<"+">> THEN Add(l, ToNumber(b.v))
                              ELSE Sub(l, ToNumber(b.v)), b.i))
         ELSE left
    [] nt = "Multiplicative" ->
         LET a == Parse("Exponentiation", ts, i, Fail)
         IN  IF a.ok THEN Parse("MultiplicativeRest", ts, a.i, a) ELSE Fail
    [] nt = "MultiplicativeRest" ->
         IF IsOp(ts, i, <<"*">>) \/ IsOp(ts, i, <<"/">>) \/ IsOp(ts, i, <<"%">>) THEN
           LET b == Parse("Exponentiation", ts, i + 1, Fail)
               l == ToNumber(left.v)
           IN  IF ~b.ok THEN Fail
               ELSE Parse("MultiplicativeRest", ts, b.i,
                          Res(IF ts[i].s = <<"*">> THEN Mul(l, ToNumber(b.v))
                              ELSE IF ts[i].s = <<"/">> THEN Div(l, ToNumber(b.v))
                              ELSE Mod(l, ToNumber(b.v)), b.i))
         ELSE left
    [] nt = "Exponentiation" ->
         IF IsOp(ts, i, <<"-">>) \/ IsOp(ts, i, <<"+">>) THEN
           LET u == Parse("Unary", ts, i, Fail)
           IN  IF u.ok /\ IsOp(ts, u.i, <<"*", "*">>) THEN Fail ELSE u
         ELSE
           LET base == Parse("Postfix", ts, i, Fail)
           IN  IF base.ok /\ IsOp(ts, base.i, <<"*", "*">>) THEN
                 LET e == Parse("Exponentiation", ts, base.i + 1, Fail)
                 IN  IF e.ok THEN Res(Pow(ToNumber(base.v), ToNumber(e.v)), e.i)
                     ELSE Fail
               ELSE base
    [] nt = "Unary" ->
         IF IsOp(ts, i, <<"-">>) \/ IsOp(ts, i, <<"+">>) THEN
           LET u == Parse("Unary", ts, i + 1, Fail)
           IN  IF ~u.ok THEN Fail
               ELSE Res(IF ts[i].s = <<"-">> THEN Neg(ToNumber(u.v))
                        ELSE ToNumber(u.v), u.i)
         ELSE Parse("Postfix", ts, i, Fail)
    [] nt = "Postfix" ->
         LET a == Parse("Primary", ts, i, Fail)
         IN  IF a.ok THEN Parse("PostfixRest", ts, a.i, a) ELSE Fail
    [] nt = "PostfixRest" ->
         IF IsOp(ts, i, <<".">>) THEN
           IF i + 1 \in DOMAIN ts /\ ts[i + 1].t = "id" THEN
             LET m == MemberOf(left.v, ts[i + 1].s)
             IN  IF m.ok THEN Parse("PostfixRest", ts, i + 2, Res(m.v, i + 2)) ELSE Fail
           ELSE Fail
         ELSE IF IsOp(ts, i, <<"(">>) THEN
           LET args == Parse("Arguments", ts, i + 1, Res(Undefined, 0))
           IN  IF ~args.ok \/ left.v.k # "fn" THEN Fail   \* SyntaxError, TypeError
               ELSE Parse("PostfixRest", ts, args.i,
                          Res(MathCall(left.v.f, ToNumber(args.v)), args.i))
         ELSE left
    [] nt = "Arguments" ->
         IF IsOp(ts, i, <<")">>) THEN Res(left.v, i + 1)
         ELSE LET a == Parse("Additive", ts, i, Fail)
                  first == IF left.v.k = "undef" THEN a.v ELSE left.v
              IN  IF ~a.ok THEN Fail
                  ELSE IF IsOp(ts, a.i, <<",">>)
                    THEN Parse("Arguments", ts, a.i + 1, Res(first, 0))
                  ELSE IF IsOp(ts, a.i, <<")">>) THEN Res(first, a.i + 1)
                  ELSE Fail
    [] OTHER -> \* Primary
         IF i \notin DOMAIN ts THEN Fail
         ELSE IF ts[i].t = "num" THEN Res(ts[i].v, i + 1)
         ELSE IF ts[i].t = "id" THEN
           LET r == ResolveIdentifier(ts[i].s)
           IN  IF r.ok THEN Res(r.v, i + 1) ELSE Fail
         ELSE IF IsOp(ts, i, <<"(">>) THEN
           LET e == Parse("Expression", ts, i + 1, Fail)
           IN  IF e.ok /\ IsOp(ts, e.i, <<")">>) THEN Res(e.v, e.i + 1) ELSE Fail
         ELSE Fail

\* the value of `return ${evalExpr}`, or a failure (SyntaxError,
\* ReferenceError, TypeError)
RunFunction(evalExpr) ==
  LET ts == Tokenize(evalExpr, 1)
  IN  IF \E j \in DOMAIN ts : ts[j].t = "bad" THEN Fail
      ELSE IF ts = <<>> THEN Res(Undefined, 0)
      ELSE LET r == Parse("Expression", ts, 1, Fail)
           IN  IF r.ok /\ r.i = Len(ts) + 1 THEN r ELSE Fail

\* typeof result !== 'number' || !isFinite(result)  =>  throw
FiniteNumberOrThrow(r) ==
  IF r.ok /\ IsNumber(r.v) /\ IsFinite(r.v) THEN Res(r.v, 0) ELSE Fail

(***************************************************************************)
(* Parameter store: lib/parameters.ts                                      *)
(***************************************************************************)
\* the writer's clamp, Math.max(min, Math.min(max, value)); a version that
\* forgets the clamp is MutClamp
MutClamp(min, max, value) == value

Clamp(min, max, value) == MathMax(min, MathMin(max, value))

createParameter(name, value, min, max, step, description) ==
  [name |-> name, value |-> Clamp(min, max, value), min |-> min, max |-> max,
   step |-> step, description |-> description]

updateParameter(parameter, newValue) ==
  [parameter EXCEPT !.value = Clamp(parameter.min, parameter.max, newValue)]

isValidParameterName(name) ==
  /\ Len(name) >= 1
  /\ name[1] \in Letters
  /\ \A i \in 2..Len(name) : name[i] \in Letters \cup Digits
  /\ Len(name) > 1

\* /\b([a-zA-Z][a-zA-Z0-9]*)(?!\s*\()/ at position p: the length of the match,
\* 0 when none.  The identifier is taken greedily; when "(" follows it the
\* engine backtracks by one character, where the look-ahead then passes.
RECURSIVE AlnumEnd(_, _)
AlnumEnd(s, p) ==
  IF p + 1 \in DOMAIN s /\ s[p + 1] \in Letters \cup Digits THEN AlnumEnd(s, p + 1) ELSE p

CallFollows(s, p) ==
  LET q == SkipSpaces(s, p) IN q \in DOMAIN s /\ s[q] = "("

ParameterPatternLen(s, p) ==
  IF ~(BoundaryBefore(s, p) /\ s[p] \in Letters) THEN 0
  ELSE LET q == AlnumEnd(s, p)
       IN  IF ~CallFollows(s, q + 1) THEN q - p + 1 ELSE q - p

\* expression.match(parameterPattern) || [], scanning from position p
RECURSIVE MatchAllFrom(_, _)
MatchAllFrom(s, p) ==
  IF p > Len(s) THEN <<>>
  ELSE LET len == ParameterPatternLen(s, p)
       IN  IF len > 0 THEN <<SubSeq(s, p, p + len - 1)>> \o MatchAllFrom(s, p + len)
           ELSE MatchAllFrom(s, p + 1)

reservedKeywords ==
  { <<"x">>, <<"t">>, <<"i">>, <<"p","i">>, <<"e">>, <<"s","i","n">>, <<"c","o","s">>,
    <<"t","a","n">>, <<"s","i","n","h">>, <<"c","o","s","h">>, <<"t","a","n","h">>,
    <<"e","x","p">>, <<"s","q","r","t">>, <<"a","b","s">>, <<"l","o","g">>, <<"l","n">>,
    <<"t","r","u","e">>, <<"f","a","l","s","e">>, <<"i","f">>, <<"e","l","s","e">> }

\* [...new Set(list)]: the first occurrence of each element, in order
RECURSIVE Dedupe(_)
Dedupe(list) ==
  IF list = <<>> THEN <<>>
  ELSE LET init == Dedupe(SubSeq(list, 1, Len(list) - 1))
           last == list[Len(list)]
       IN  IF last \in Range(init) THEN init ELSE Append(init, last)

\* the filter of extractParameterNames; a version that keeps one-letter
\* names is MutIsPotentialParameter
MutIsPotentialParameter(name) == ToLowerCase(name) \notin reservedKeywords

IsPotentialParameter(name) ==
  ToLowerCase(name) \notin reservedKeywords /\ Len(name) > 1

extractParameterNames(expression) ==
  Dedupe(SelectSeq(MatchAllFrom(expression, 1), IsPotentialParameter))

\* Object.values(parameters).forEach(...): pset is the list of the object's
\* entries in insertion order
RECURSIVE substituteParameters(_, _)
substituteParameters(expression, pset) ==
  IF pset = <<>> THEN expression
  ELSE substituteParameters(
         Replace(expression, Word(pset[1].name), Parenthesised(pset[1].value)),
         Tail(pset))

\* 2 * Math.PI, to six decimals
TwoPi == Rat(6283185, 1000000)

detectParameterType(paramName) ==
  LET lowerName == ToLowerCase(paramName)
      has(sub) == Includes(lowerName, sub)
      tenth == Rat(1, 10)
  IN  IF has(<<"a","m","p">>) \/ has(<<"a">>)
        THEN createParameter(paramName, N(1), N(-5), N(5), tenth, "Amplitude")
      ELSE IF has(<<"f","r","e","q">>) \/ has(<<"k">>)
        THEN createParameter(paramName, N(1), N(-10), N(10), tenth, "Frequency")
      ELSE IF has(<<"p","h","a","s","e">>) \/ has(<<"p","h","i">>)
        THEN createParameter(paramName, N(0), Neg(TwoPi), TwoPi, tenth, "Phase")
      ELSE IF has(<<"o","f","f","s","e","t">>) \/ has(<<"b">>)
        THEN createParameter(paramName, N(0), N(-10), N(10), tenth, "Offset")
      ELSE IF has(<<"s","c","a","l","e">>) \/ has(<<"c">>)
        THEN createParameter(paramName, N(1), N(-5), N(5), tenth, "Scale")
      ELSE IF has(<<"o","m","e","g","a">>)
        THEN createParameter(paramName, N(1), N(0), N(10), tenth, "Angular frequency")
      ELSE IF has(<<"s","i","g","m","a">>)
        THEN createParameter(paramName, N(1), tenth, N(10), tenth, "Standard deviation")
      ELSE IF has(<<"c","e","n","t","e","r">>) \/ has(<<"x","0">>)
        THEN createParameter(paramName, N(0), N(-10), N(10), tenth, "Center position")
      ELSE IF has(<<"m","a","s","s">>) \/ lowerName = <<"m">>
        THEN createParameter(paramName, N(1), tenth, N(10), tenth, "Mass")
      ELSE IF has(<<"h","b","a","r">>)
        THEN createParameter(paramName, N(1), tenth, N(5), tenth, "Reduced Planck constant")
      ELSE createParameter(paramName, N(1), N(-10), N(10), tenth, "Custom parameter")

EmptyParameterSet == [n \in {} |-> n]

\* { ...parameters, [name]: p }
WithEntry(ps, name, p) ==
  [n \in (DOMAIN ps) \cup {name} |-> IF n = name THEN p ELSE ps[n]]

\* delete copy[name]
WithoutEntry(ps, name) == [n \in (DOMAIN ps) \ {name} |-> ps[n]]

(***************************************************************************)
(* Expression evaluators: lib/potentials.ts, lib/wavefunctions.ts and      *)
(* lib/tdse-solver.ts                                                      *)
(***************************************************************************)
\* <<name, Math function>> in the order of the .replace calls of
\* potentials.ts and wavefunctions.ts
FunctionRewrites ==
  << <<<<"s","i","n">>, <<"s","i","n">>>>, <<<<"c","o","s">>, <<"c","o","s">>>>,
     <<<<"t","a","n">>, <<"t","a","n">>>>, <<<<"e","x","p">>, <<"e","x","p">>>>,
     <<<<"s","q","r","t">>, <<"s","q","r","t">>>>, <<<<"a","b","s">>, <<"a","b","s">>>>,
     <<<<"l","o","g">>, <<"l","o","g">>>>, <<<<"l","n">>, <<"l","o","g">>>>,
     <<<<"s","i","n","h">>, <<"s","i","n","h">>>>, <<<<"c","o","s","h">>, <<"c","o","s","h">>>>,
     <<<<"t","a","n","h">>, <<"t","a","n","h">>>> >>

\* the same table in the order of tdse-solver.ts
SolverFunctionRewrites ==
  << <<<<"s","i","n">>, <<"s","i","n">>>>, <<<<"c","o","s">>, <<"c","o","s">>>>,
     <<<<"t","a","n">>, <<"t","a","n">>>>, <<<<"s","i","n","h">>, <<"s","i","n","h">>>>,
     <<<<"c","o","s","h">>, <<"c","o","s","h">>>>, <<<<"t","a","n","h">>, <<"t","a","n","h">>>>,
     <<<<"e","x","p">>, <<"e","x","p">>>>, <<<<"s","q","r","t">>, <<"s","q","r","t">>>>,
     <<<<"a","b","s">>, <<"a","b","s">>>>, <<<<"l","o","g">>, <<"l","o","g">>>>,
     <<<<"l","n">>, <<"l","o","g">>>> >>

\* evalExpr.replace(/\bname\s*\(/g, 'Math.fn(') for each row of the table
RECURSIVE RewriteFunctions(_, _)
RewriteFunctions(evalExpr, table) ==
  IF table = <<>> THEN evalExpr
  ELSE RewriteFunctions(
         Replace(evalExpr, CallOf(table[1][1]),
                 <<"M","a","t","h",".">> \o table[1][2] \o <<"(">>),
         Tail(table))

\* .replace(/\bpi\b/gi, 'Math.PI').replace(/\be\b/g, 'Math.E')
RewriteConstants(evalExpr) ==
  Replace(Replace(evalExpr, WordCI(<<"p","i">>), <<"M","a","t","h",".","P","I">>),
          Word(<<"e">>), <<"M","a","t","h",".","E">>)

\* .replace(/\bx\b/g, `(${xVal})`).replace(/\bt\b/g, `(${tVal})`)
\* .replace(/\bi\b/g, '(1)')
RewriteVariables(evalExpr, xVal, tVal) ==
  Replace(Replace(Replace(evalExpr, Word(<<"x">>), Parenthesised(xVal)),
                  Word(<<"t">>), Parenthesised(tVal)),
          Word(<<"i">>), <<"(","1",")">>)

\* .replace(/\^/g, '**')
RewritePower(evalExpr) == Replace(evalExpr, Char(<<"^">>), <<"*","*">>)

\* /^[\d\s\+\-\*\/\.\(\)\w\^\s]*$/
AllowedChars == WordChars \cup SpaceChars \cup {"+", "-", "*", "/", ".", "(", ")", "^"}

PassesSafetyCheck(evalExpr) == Range(evalExpr) \subseteq AllowedChars

\* createCustomFunctionPotential's safeEval(expr, xVal)
safeEvalPotential(expr, xVal, pset) ==
  IF TrimIsEmpty(expr) THEN Fail
  ELSE LET evalExpr ==
             RewriteConstants(RewriteFunctions(RewritePower(
               Replace(substituteParameters(expr, pset), Word(<<"x">>),
                       Parenthesised(xVal))), FunctionRewrites))
       IN  IF ~PassesSafetyCheck(evalExpr) THEN Fail
           ELSE FiniteNumberOrThrow(RunFunction(evalExpr))

\* wavefunctions.ts: parseComplexFunction's safeEval(expr, xVal, tVal)
\* validatePotentialFunction: const testValues = [0, 1, -1, 0.5, -0.5]
testValues == << N(0), N(1), N(-1), Rat(1, 2), Rat(-1, 2) >>

\* the body of validatePotentialFunction's loop at one test value: the
\* rewrites of the generator and the evaluation, with no test of the
\* characters in between
TestExpr(functionString, testX, pset) ==
  FiniteNumberOrThrow(RunFunction(
    RewriteConstants(RewriteFunctions(RewritePower(
      Replace(substituteParameters(functionString, pset), Word(<<"x">>),
              Parenthesised(testX))), FunctionRewrites))))

\* valid: the expression is not blank and every test value gives a finite
\* number
ValidationOf(functionString, tested) ==
  [valid |-> ~TrimIsEmpty(functionString) /\ \A i \in DOMAIN tested : tested[i].ok]

validatePotentialFunction(functionString, pset) ==
  ValidationOf(functionString,
               [i \in DOMAIN testValues |-> TestExpr(functionString, testValues[i], pset)])

safeEvalWavefunction(expr, xVal, tVal, pset) ==
  IF TrimIsEmpty(expr) THEN Fail
  ELSE LET evalExpr ==
             RewriteConstants(RewriteFunctions(RewritePower(
               RewriteVariables(substituteParameters(expr, pset), xVal, tVal)),
               FunctionRewrites))
       IN  IF ~PassesSafetyCheck(evalExpr) THEN Fail
           ELSE FiniteNumberOrThrow(RunFunction(evalExpr))

\* tdse-solver.ts: parseComplexFunction's safeEval(expr, xVal, tVal)
safeEvalSolver(expr, xVal, tVal, pset) ==
  IF TrimIsEmpty(expr) THEN Res(N(0), 0)
  ELSE LET evalExpr ==
             RewriteConstants(RewriteFunctions(RewritePower(
               RewriteVariables(substituteParameters(expr, pset), xVal, tVal)),
               SolverFunctionRewrites))
       IN  FiniteNumberOrThrow(RunFunction(evalExpr))

\* the result of a complex evaluation: ok = FALSE when an error is thrown
Complex(re, im) == [ok |-> TRUE, real |-> re, imag |-> im]
ComplexError == [ok |-> FALSE, real |-> NaN, imag |-> NaN]

\* wavefunctions.ts: parseComplexFunction(realExpr, imagExpr, x, t, parameters)
parseComplexFunction(realExpr, imagExpr, x, t, pset) ==
  LET re == safeEvalWavefunction(realExpr, x, t, pset)
      im == safeEvalWavefunction(imagExpr, x, t, pset)
  IN  IF ~TrimIsEmpty(realExpr) /\ ~TrimIsEmpty(imagExpr) THEN
        (IF re.ok /\ im.ok THEN Complex(re.v, im.v) ELSE ComplexError)
      ELSE IF ~TrimIsEmpty(realExpr) THEN
        (IF re.ok THEN Complex(re.v, N(0)) ELSE ComplexError)
      ELSE IF ~TrimIsEmpty(imagExpr) THEN
        (IF im.ok THEN Complex(N(0), im.v) ELSE ComplexError)
      ELSE ComplexError

\* tdse-solver.ts: parseComplexFunction(realExpr, imagExpr, x, t, parameters)
parseComplexFunctionSolver(realExpr, imagExpr, x, t, pset) ==
  LET re == IF ~TrimIsEmpty(realExpr) THEN safeEvalSolver(realExpr, x, t, pset)
            ELSE Res(N(0), 0)
      im == IF ~TrimIsEmpty(imagExpr) THEN safeEvalSolver(imagExpr, x, t, pset)
            ELSE Res(N(0), 0)
  IN  IF re.ok /\ im.ok THEN Complex(re.v, im.v) ELSE ComplexError

(***************************************************************************)
(* Placeholders of the layers that a specification does not exercise       *)
(***************************************************************************)
NoSolver == [kind |-> "none"]
NoState == [kind |-> "none"]
NoApp == [kind |-> "none"]
NoCall == [fn |-> "none"]

(***************************************************************************)
(* Potentials: lib/potentials.ts                                           *)
(***************************************************************************)
AbsOf(v) == MathCall(<<"a","b","s">>, v)

\* a version that returns an array of no entries
MutCreateFreePotential(x) == <<>>

\* new Float64Array(x.length)
createFreePotential(x) == [i \in DOMAIN x |-> N(0)]

createBarrierPotential(x, v0, x0, width) ==
  [i \in DOMAIN x |->
     IF Lt(AbsOf(Sub(x[i], x0)), Div(width, N(2))) THEN v0 ELSE N(0)]

createWellPotential(x, v0, x0, width) ==
  [i \in DOMAIN x |->
     IF Lt(AbsOf(Sub(x[i], x0)), Div(width, N(2))) THEN Neg(v0) ELSE N(0)]

createHarmonicPotential(x, mass, omega, x0) ==
  [i \in DOMAIN x |->
     LET dx == Sub(x[i], x0)
     IN  Mul(Mul(Mul(Mul(Mul(Rat(1, 2), mass), omega), omega), dx), dx)]

\* the array, or ok = FALSE when an error is thrown
Array(V) == [ok |-> TRUE, V |-> V]
ArrayError == [ok |-> FALSE, V |-> <<>>]

\* the loop over the grid: the first failing point throws out of the function
ArrayOfResults(results) ==
  IF \A i \in DOMAIN results : results[i].ok
    THEN Array([i \in DOMAIN results |-> results[i].v])
    ELSE ArrayError

createCustomFunctionPotential(x, functionString, pset) ==
  ArrayOfResults([i \in DOMAIN x |-> safeEvalPotential(functionString, x[i], pset)])

\* a version that leaves the points in the order given
MutSortPoints(points) == points

\* [...points].sort((a, b) => a.x - b.x): a stable sort
RECURSIVE SortPoints(_)
SortPoints(points) ==
  IF points = <<>> THEN <<>>
  ELSE LET rest == SortPoints(Tail(points))
           p == Head(points)
           before == SelectSeq(rest, LAMBDA q : Lt(q.x, p.x))
           after == SelectSeq(rest, LAMBDA q : ~Lt(q.x, p.x))
       IN  before \o <<p>> \o after

\* a version without the two branches for the grid points at and outside
\* the ends of the stroke
MutCreateDrawnPotential(x, points) ==
  IF Len(points) = 0 THEN [i \in DOMAIN x |-> N(0)]
  ELSE
    LET sortedPoints == SortPoints(points)
        last == Len(sortedPoints)
        Surrounds(j, xi) ==
          Leq(sortedPoints[j].x, xi) /\ Leq(xi, sortedPoints[j + 1].x)
        leftIdx(xi) ==
          IF \E j \in 1..(last - 1) : Surrounds(j, xi)
            THEN CHOOSE j \in 1..(last - 1) :
                   Surrounds(j, xi) /\ \A h \in 1..(j - 1) : ~Surrounds(h, xi)
            ELSE 1
        rightIdx(xi) ==
          IF \E j \in 1..(last - 1) : Surrounds(j, xi) THEN leftIdx(xi) + 1 ELSE last
    IN  [i \in DOMAIN x |->
           LET l == sortedPoints[leftIdx(x[i])]
               r == sortedPoints[rightIdx(x[i])]
               t == Div(Sub(x[i], l.x), Sub(r.x, l.x))
           IN  Add(l.y, Mul(t, Sub(r.y, l.y)))]

createDrawnPotential(x, points) ==
  IF Len(points) = 0 THEN createFreePotential(x)
  ELSE
    LET sortedPoints == SortPoints(points)
        last == Len(sortedPoints)
        Surrounds(j, xi) ==
          Leq(sortedPoints[j].x, xi) /\ Leq(xi, sortedPoints[j + 1].x)
        leftIdx(xi) ==
          IF \E j \in 1..(last - 1) : Surrounds(j, xi)
            THEN CHOOSE j \in 1..(last - 1) :
                   Surrounds(j, xi) /\ \A h \in 1..(j - 1) : ~Surrounds(h, xi)
            ELSE 1
        rightIdx(xi) ==
          IF \E j \in 1..(last - 1) : Surrounds(j, xi) THEN leftIdx(xi) + 1 ELSE last
    IN  [i \in DOMAIN x |->
           IF Leq(x[i], sortedPoints[1].x) THEN sortedPoints[1].y
           ELSE IF Leq(sortedPoints[last].x, x[i]) THEN sortedPoints[last].y
           ELSE LET l == sortedPoints[leftIdx(x[i])]
                    r == sortedPoints[rightIdx(x[i])]
                    t == Div(Sub(x[i], l.x), Sub(r.x, l.x))
                IN  Add(l.y, Mul(t, Sub(r.y, l.y)))]

\* value ?? fallback
OrElse(value, fallback) == IF value.k = "undef" THEN fallback ELSE value

PotentialConfig(type) ==
  [type |-> type, v0 |-> Undefined, x0 |-> Undefined, width |-> Undefined,
   omega |-> Undefined, customFunction |-> <<>>, customPoints |-> <<>>]

generatePotential(x, config, mass, pset) ==
  CASE config.type = "free" -> Array(createFreePotential(x))
    [] config.type = "barrier" ->
         Array(createBarrierPotential(x, OrElse(config.v0, N(5)), OrElse(config.x0, N(0)),
                                      OrElse(config.width, N(2))))
    [] config.type = "well" ->
         Array(createWellPotential(x, OrElse(config.v0, N(5)), OrElse(config.x0, N(0)),
                                   OrElse(config.width, N(2))))
    [] config.type = "harmonic" ->
         Array(createHarmonicPotential(x, mass, OrElse(config.omega, N(1)),
                                       OrElse(config.x0, N(0))))
    [] config.type = "custom-function" ->
         IF config.customFunction = <<>> THEN ArrayError
         ELSE createCustomFunctionPotential(x, config.customFunction, pset)
    [] config.type = "custom-draw" ->
         IF Len(config.customPoints) = 0 THEN Array(createFreePotential(x))
         ELSE Array(createDrawnPotential(x, config.customPoints))
    [] OTHER -> Array(createFreePotential(x))

(***************************************************************************)
(* TDSESolver: lib/tdse-solver.ts                                          *)
(*                                                                         *)
(* The solver is modelled in exact arithmetic.  Angles are counted in      *)
(* quarter turns: the domain xMax - xMin is 4 (so dk is one quarter turn   *)
(* per unit length and k[i] is kept as the integer j of k = j*dk), hbar is *)
(* in units of sqrt(2)/pi and dt in units of 2*sqrt(2).  The potential     *)
(* half-step phase -V*dt/(2*hbar) is then -2*V*dt/hbar quarter turns and   *)
(* the kinetic phase -hbar*k^2*dt/(2*mass) is -hbar*j^2*dt/mass quarter    *)
(* turns.  Wavenumbers k0 are in quarter turns per unit length and the     *)
(* Gaussian width sigma is in units of 1/(2*sqrt(ln 2)), which makes       *)
(* exp(-(x-x0)^2/(4*sigma^2)) the power 2^(-(x-x0)^2/sigma^2).  Every      *)
(* phase of the model is a whole number of quarter turns, so the operator  *)
(* arrays hold Gaussian integers <<re, im>>.                               *)
(*                                                                         *)
(* A state holds the amplitudes num/sqrt(den2): real and imag are the      *)
(* integer numerators, den2 the square of the common denominator.  A       *)
(* state with a NaN entry has nan = TRUE; every operation of the solver    *)
(* that reads a NaN entry spreads it to all entries.                       *)
(***************************************************************************)
RECURSIVE CeilLog2(_)
\* Math.ceil(Math.log2(g)) for a positive integer g
CeilLog2(g) == IF g <= 1 THEN 0 ELSE 1 + CeilLog2((g + 1) \div 2)

NextPowerOfTwo(gridSize) == IntPow(2, CeilLog2(gridSize))

\* cos and sin of a whole number of quarter turns
Cis(turns) ==
  CASE IsInteger(turns) /\ turns.n % 4 = 0 -> <<1, 0>>
    [] IsInteger(turns) /\ turns.n % 4 = 1 -> <<0, 1>>
    [] IsInteger(turns) /\ turns.n % 4 = 2 -> <<-1, 0>>
    [] IsInteger(turns) /\ turns.n % 4 = 3 -> <<0, -1>>

RECURSIVE SumOver(_, _)
\* the sum of f over 1..n
SumOver(f, n) == IF n = 0 THEN 0 ELSE f[n] + SumOver(f, n - 1)

RECURSIVE GcdOver(_, _)
GcdOver(f, n) == IF n = 0 THEN 0 ELSE GCD(Abs(f[n]), GcdOver(f, n - 1))

RECURSIVE LcmOver(_, _)
LcmOver(f, n) ==
  IF n = 0 THEN 1
  ELSE LET l == LcmOver(f, n - 1) IN (l * f[n]) \div GCD(l, f[n])

\* sum of |psi_i|^2 over the numerators
SumSquares(real, imag) ==
  SumOver([i \in DOMAIN real |-> real[i] * real[i] + imag[i] * imag[i]], Len(real))

\* new FFT(size) of fft.js: the size must be a power of two and bigger than 1
FFTAccepts(size) == size > 1 /\ size = NextPowerOfTwo(size)

\* this.kineticPhase[i], in quarter turns
KineticTurns(params, j) == Div(N(-(params.hbar * j * j * params.dt)), N(params.mass))

updateKineticOperator(params, k) ==
  [i \in DOMAIN k |-> Cis(KineticTurns(params, k[i]))]

\* a constructor whose wavenumbers are not wrapped to the negative half
MutTDSESolver(params) ==
  LET n == NextPowerOfTwo(params.gridSize)
      dx == Rat(params.xMax - params.xMin, n)
      k == [i \in 1..n |-> i - 1]
  IN  IF ~FFTAccepts(n) THEN [ok |-> FALSE, solver |-> NoSolver]
      ELSE [ok |-> TRUE,
            solver |->
              [kind |-> "solver",
               params |-> [params EXCEPT !.gridSize = n],
               dx |-> dx,
               x |-> [i \in 1..n |-> Add(N(params.xMin), Mul(N(i - 1), dx))],
               k |-> k,
               expVhalf |-> [i \in 1..n |-> <<0, 0>>],
               expT |-> updateKineticOperator(params, k),
               potential |-> [i \in 1..n |-> N(0)]]]

\* new TDSESolver(params): the solver, or ok = FALSE when the constructor throws
TDSESolver(params) ==
  LET n == NextPowerOfTwo(params.gridSize)
      dx == Rat(params.xMax - params.xMin, n)
      k == [i \in 1..n |-> IF 2 * (i - 1) < n THEN i - 1 ELSE i - 1 - n]
  IN  IF ~FFTAccepts(n) THEN [ok |-> FALSE, solver |-> NoSolver]
      ELSE [ok |-> TRUE,
            solver |->
              [kind |-> "solver",
               params |-> [params EXCEPT !.gridSize = n],
               dx |-> dx,
               x |-> [i \in 1..n |-> Add(N(params.xMin), Mul(N(i - 1), dx))],
               k |-> k,
               expVhalf |-> [i \in 1..n |-> <<0, 0>>],
               expT |-> updateKineticOperator(params, k),
               potential |-> [i \in 1..n |-> N(0)]]]

\* this.potentialPhase[i], in quarter turns
PotentialTurns(params, v) == Div(Mul(N(-(2 * params.dt)), v), N(params.hbar))

\* a version that stores the array before looking at its length
MutSetPotential(s, V) ==
  IF Len(V) # s.params.gridSize
    THEN [ok |-> FALSE, solver |-> [s EXCEPT !.potential = V]]
    ELSE [ok |-> TRUE,
          solver |-> [s EXCEPT !.potential = V,
                               !.expVhalf = [i \in DOMAIN V |->
                                               Cis(PotentialTurns(s.params, V[i]))]]]

\* solver.setPotential(V): ok = FALSE when it throws
setPotential(s, V) ==
  IF Len(V) # s.params.gridSize THEN [ok |-> FALSE, solver |-> s]
  ELSE [ok |-> TRUE,
        solver |-> [s EXCEPT !.potential = V,
                             !.expVhalf = [i \in DOMAIN V |->
                                             Cis(PotentialTurns(s.params, V[i]))]]]

CMulRe(a, b, c) == a * c[1] - b * c[2]
CMulIm(a, b, c) == a * c[2] + b * c[1]

applyPotentialOperator(s, psi) ==
  [real |-> [i \in DOMAIN psi.real |-> CMulRe(psi.real[i], psi.imag[i], s.expVhalf[i])],
   imag |-> [i \in DOMAIN psi.real |-> CMulIm(psi.real[i], psi.imag[i], s.expVhalf[i])]]

applyKineticOperator(s, psi) ==
  [real |-> [i \in DOMAIN psi.real |-> CMulRe(psi.real[i], psi.imag[i], s.expT[i])],
   imag |-> [i \in DOMAIN psi.real |-> CMulIm(psi.real[i], psi.imag[i], s.expT[i])]]

\* the discrete Fourier sum of psi with the kernel exp(sign*2*pi*i*j*m/n);
\* for n = 2 and n = 4 the kernel is a whole number of quarter turns
FourierQuarter(psi, sign) ==
  LET n == Len(psi.real)
      W(j, m) == Cis(N(sign * (4 \div n) * (j - 1) * (m - 1)))
  IN  [real |-> [j \in 1..n |->
                   SumOver([m \in 1..n |-> CMulRe(psi.real[m], psi.imag[m], W(j, m))], n)],
       imag |-> [j \in 1..n |->
                   SumOver([m \in 1..n |-> CMulIm(psi.real[m], psi.imag[m], W(j, m))], n)]]

\* the same sum on a grid of n = 4*q points, for the two kinds of array on
\* which it stays within quarter turns: an array of period 4, whose sum is
\* q times the 4-point sum at the indices j = q*j' and 0 elsewhere, and an
\* array that is 0 off the indices q*j', whose sum has period 4
FourierPeriodic(psi, sign) ==
  LET n == Len(psi.real)
      q == n \div 4
      W(a, b) == Cis(N(sign * a * b))
      supported == \A i \in 1..n :
                     (i - 1) % q # 0 => psi.real[i] = 0 /\ psi.imag[i] = 0
      periodic == \A i \in 1..(n - 4) :
                    psi.real[i + 4] = psi.real[i] /\ psi.imag[i + 4] = psi.imag[i]
      at(c) == (c - 1) * q + 1
  IN  CASE supported ->
             [real |-> [m \in 1..n |->
                SumOver([c \in 1..4 |-> CMulRe(psi.real[at(c)], psi.imag[at(c)],
                                               W(c - 1, m - 1))], 4)],
              imag |-> [m \in 1..n |->
                SumOver([c \in 1..4 |-> CMulIm(psi.real[at(c)], psi.imag[at(c)],
                                               W(c - 1, m - 1))], 4)]]
        [] periodic ->
             [real |-> [j \in 1..n |->
                IF (j - 1) % q # 0 THEN 0
                ELSE q * SumOver([r \in 1..4 |-> CMulRe(psi.real[r], psi.imag[r],
                                                        W((j - 1) \div q, r - 1))], 4)],
              imag |-> [j \in 1..n |->
                IF (j - 1) % q # 0 THEN 0
                ELSE q * SumOver([r \in 1..4 |-> CMulIm(psi.real[r], psi.imag[r],
                                                        W((j - 1) \div q, r - 1))], 4)]]

Fourier(psi, sign) ==
  IF Len(psi.real) <= 4 THEN FourierQuarter(psi, sign) ELSE FourierPeriodic(psi, sign)

\* fft.transform: the forward sum, not normalised
transform(psi) == Fourier(psi, -1)

\* fft.inverseTransform: the backward sum divided by n; the division is
\* carried by den2 in step
inverseTransform(psi) == Fourier(psi, 1)

\* the same amplitudes with the numerators in lowest terms
Canonical(st) ==
  LET n == Len(st.real)
      g == GCD(GcdOver(st.real, n), GcdOver(st.imag, n))
  IN  IF st.nan THEN [st EXCEPT !.real = [i \in 1..n |-> 0],
                                !.imag = [i \in 1..n |-> 0], !.den2 = N(1)]
      ELSE IF g = 0 THEN [st EXCEPT !.den2 = N(1)]
      ELSE [st EXCEPT !.real = [i \in 1..n |-> st.real[i] \div g],
                      !.imag = [i \in 1..n |-> st.imag[i] \div g],
                      !.den2 = Div(st.den2, N(g * g))]

\* a version that leaves the state as it is
MutNormalize(s, st) == st

\* solver.normalize(state): divides by the norm when the norm is positive
normalize(s, st) ==
  IF ~st.nan /\ SumSquares(st.real, st.imag) > 0
    THEN Canonical([st EXCEPT !.den2 = Mul(N(SumSquares(st.real, st.imag)), s.dx)])
    ELSE st

\* a step without its second potential half-step
MutStepOneHalfStep(s, st) ==
  LET n == s.params.gridSize
      afterV1 == applyPotentialOperator(s, st)
      afterT == applyKineticOperator(s, transform(afterV1))
      back == inverseTransform(afterT)
      stepped == [st EXCEPT !.real = back.real, !.imag = back.imag,
                            !.den2 = Mul(st.den2, N(n * n * n * n)),
                            !.time = st.time + s.params.dt]
  IN  normalize(s, Canonical(stepped))

\* solver.step(state)
step(s, st) ==
  LET n == s.params.gridSize
      afterV1 == applyPotentialOperator(s, st)
      afterT == applyKineticOperator(s, transform(afterV1))
      \* inverseTransform divides by n and step divides by n again
      afterV2 == applyPotentialOperator(s, inverseTransform(afterT))
      stepped == [st EXCEPT !.real = afterV2.real, !.imag = afterV2.imag,
                            !.den2 = Mul(st.den2, N(n * n * n * n)),
                            !.time = st.time + s.params.dt]
  IN  normalize(s, Canonical(stepped))

\* solver.checkBoundaries(state), threshold = 0.01: the probability on the
\* Math.floor(n * 0.1) points at each edge
checkBoundaries(s, st) ==
  LET n == s.params.gridSize
      boundarySize == n \div 10
      density(i) == st.real[i] * st.real[i] + st.imag[i] * st.imag[i]
      edges == [i \in 1..boundarySize |-> density(i) + density(n + 1 - i)]
      boundaryProb == Div(Mul(N(SumOver(edges, boundarySize)), s.dx), st.den2)
  IN  ~st.nan /\ Lt(Rat(1, 100), boundaryProb)

getTotalProbability(s, st) ==
  IF st.nan THEN NaN
  ELSE Div(Mul(N(SumSquares(st.real, st.imag)), s.dx), st.den2)

\* the state of samples[i].re * sqrt(scale2) + i * samples[i].im * sqrt(scale2)
\* at time 0, before normalisation
StateOf(samples, scale2) ==
  LET n == Len(samples)
      nan == \E i \in 1..n : ~IsFinite(samples[i].re) \/ ~IsFinite(samples[i].im)
      D == IF nan THEN 1
           ELSE LcmOver([i \in 1..n |-> (samples[i].re.d * samples[i].im.d)
                                          \div GCD(samples[i].re.d, samples[i].im.d)], n)
  IN  Canonical([kind |-> "state",
                 real |-> [i \in 1..n |-> IF nan THEN 0 ELSE samples[i].re.n * (D \div samples[i].re.d)],
                 imag |-> [i \in 1..n |-> IF nan THEN 0 ELSE samples[i].im.n * (D \div samples[i].im.d)],
                 den2 |-> IF nan THEN N(1) ELSE Div(N(D * D), scale2),
                 nan |-> nan,
                 time |-> 0])

\* "norm = Math.sqrt(norm * dx); real[i] /= norm; imag[i] /= norm" with no
\* test of the norm: a zero norm gives 0/0 in every entry
DivideByNorm(s, st) ==
  IF st.nan \/ SumSquares(st.real, st.imag) = 0
    THEN Canonical([st EXCEPT !.nan = TRUE])
    ELSE Canonical([st EXCEPT !.den2 = Mul(N(SumSquares(st.real, st.imag)), s.dx)])

createGaussianWavepacket(s, x0, sigma, k0) ==
  LET sample(x) ==
        LET gaussian == Pow(N(2), Neg(Div(Pow(Sub(x, x0), N(2)), Mul(sigma, sigma))))
            phase == Cis(Mul(k0, x))
        IN  [re |-> Mul(gaussian, N(phase[1])), im |-> Mul(gaussian, N(phase[2]))]
  IN  DivideByNorm(s, StateOf([i \in DOMAIN s.x |-> sample(s.x[i])], N(1)))

createPlaneWave(s, amplitude, k0) ==
  LET sample(x) ==
        LET phase == Cis(Mul(k0, x))
        IN  [re |-> Mul(amplitude, N(phase[1])), im |-> Mul(amplitude, N(phase[2]))]
  IN  DivideByNorm(s, StateOf([i \in DOMAIN s.x |-> sample(s.x[i])], N(1)))

\* sqrt(2/L) * sin(n*pi*x/L) inside (0, L), 0 elsewhere
createBoundState(s, n, L) ==
  LET inside(x) == Lt(N(0), x) /\ Lt(x, L)
      sample(x) ==
        IF inside(x)
          THEN [re |-> N(Cis(Div(Mul(N(2), Mul(n, x)), L))[2]), im |-> N(0)]
          ELSE [re |-> N(0), im |-> N(0)]
      normalization2 == IF \E i \in DOMAIN s.x : inside(s.x[i]) THEN Div(N(2), L) ELSE N(1)
  IN  DivideByNorm(s, StateOf([i \in DOMAIN s.x |-> sample(s.x[i])], normalization2))

\* "if (norm > 0) { real[i] /= norm; imag[i] /= norm }"
DivideByPositiveNorm(s, st) ==
  IF ~st.nan /\ SumSquares(st.real, st.imag) > 0
    THEN Canonical([st EXCEPT !.den2 = Mul(N(SumSquares(st.real, st.imag)), s.dx)])
    ELSE st

\* the try/catch around a grid point: a failing point is set to zero
SampleOrZero(r) ==
  IF r.ok THEN [re |-> r.real, im |-> r.imag] ELSE [re |-> N(0), im |-> N(0)]

createCustomWavefunction(s, realExpr, imagExpr, pset) ==
  DivideByPositiveNorm(s,
    StateOf([i \in DOMAIN s.x |->
               SampleOrZero(parseComplexFunctionSolver(realExpr, imagExpr, s.x[i], N(0), pset))],
            N(1)))

(***************************************************************************)
(* ParameterControls handlers                                              *)
(***************************************************************************)
\* largest magnitude a user types into a number field
MaxInput == 7

\* what the user types into the add form's name field
NameInputs ==
  { <<>>, <<" ">>, <<"A">>, <<"2","k">>, <<"p","i">>, <<"a","m","p">> }

\* numbers typed into the value fields
ValueInputs == {N(-MaxInput), N(1), N(MaxInput)}

\* what the value field of an existing parameter sends: parseFloat of its
\* text, NaN when the field is cleared
UpdateValueInputs == ValueInputs \cup {NaN}

\* numbers typed into the min / max fields
RangeInputs == {N(-2), N(2)}

RangeFields == {"min", "max", "step"}

handleParameterUpdate(paramName, newValue) ==
  /\ paramName \in DOMAIN parameters
  /\ parameters' =
       WithEntry(parameters, paramName, updateParameter(parameters[paramName], newValue))
  /\ UNCHANGED <<error, solverVars, exprVars, appVars>>

SetField(p, field, newValue) ==
  CASE field = "min" -> [p EXCEPT !.min = newValue]
    [] field = "max" -> [p EXCEPT !.max = newValue]
    [] field = "step" -> [p EXCEPT !.step = newValue]

handleParameterRangeUpdate(paramName, field, newValue) ==
  /\ paramName \in DOMAIN parameters
  /\ parameters' =
       WithEntry(parameters, paramName, SetField(parameters[paramName], field, newValue))
  /\ UNCHANGED <<error, solverVars, exprVars, appVars>>

handleRemoveParameter(paramName) ==
  /\ paramName \in DOMAIN parameters
  /\ parameters' = WithoutEntry(parameters, paramName)
  /\ UNCHANGED <<error, solverVars, exprVars, appVars>>

\* an add that does not look for an existing entry of the name
MutHandleAddParameter(newParamName, newParamValue) ==
  /\ IF TrimIsEmpty(newParamName)
       THEN /\ error' = "Parameter name is required"
            /\ UNCHANGED parameters
     ELSE IF ~isValidParameterName(newParamName)
       THEN /\ error' = "Parameter name must start with a letter"
            /\ UNCHANGED parameters
     ELSE /\ error' = ""
          /\ parameters' =
               WithEntry(parameters, newParamName,
                         [detectParameterType(newParamName) EXCEPT !.value = newParamValue])
  /\ UNCHANGED <<solverVars, exprVars, appVars>>

handleAddParameter(newParamName, newParamValue) ==
  /\ IF TrimIsEmpty(newParamName)
       THEN /\ error' = "Parameter name is required"
            /\ UNCHANGED parameters
     ELSE IF ~isValidParameterName(newParamName)
       THEN /\ error' = "Parameter name must start with a letter"
            /\ UNCHANGED parameters
     ELSE IF newParamName \in DOMAIN parameters
       THEN /\ error' = "Parameter already exists"
            /\ UNCHANGED parameters
     ELSE /\ error' = ""
          /\ parameters' =
               WithEntry(parameters, newParamName,
                         [detectParameterType(newParamName) EXCEPT !.value = newParamValue])
  /\ UNCHANGED <<solverVars, exprVars, appVars>>

InitParams ==
  /\ parameters = EmptyParameterSet
  /\ error = ""
  /\ solver = NoSolver
  /\ state = NoState
  /\ outcome = "none"
  /\ call = NoCall
  /\ app = NoApp

NextParams ==
  \/ \E n \in NameInputs, v \in ValueInputs : handleAddParameter(n, v)
  \/ \E n \in DOMAIN parameters, v \in UpdateValueInputs : handleParameterUpdate(n, v)
  \/ \E n \in DOMAIN parameters, f \in {"min", "max"}, v \in RangeInputs :
       handleParameterRangeUpdate(n, f, v)
  \/ \E n \in DOMAIN parameters : handleParameterRangeUpdate(n, "step", Rat(1, 2))
  \/ \E n \in DOMAIN parameters : handleRemoveParameter(n)

SpecParams == InitParams /\ [][NextParams]_vars

(***************************************************************************)
(* C1                                                                      *)
(***************************************************************************)
InRange(p) == Leq(p.min, p.value) /\ Leq(p.value, p.max)

\* C1: after any sequence of parameter operations, every Parameter held in
\* the ParameterSet satisfies min <= value <= max.
C1_AllInRange == \A n \in DOMAIN parameters : InRange(parameters[n])

(***************************************************************************)
(* The expression functions, called on their own                           *)
(***************************************************************************)
ExprEmpty == <<>>
ExprBlank == <<" ">>
ExprHarmonic == <<"0",".","5","*","x","^","2">>
ExprGaussian == <<"e","x","p","(","-","x","^","2",")">>
ExprHalfGaussian == <<"e","x","p","(","-","x","^","2","/","2",")">>
ExprBracketedGaussian == <<"e","x","p","(","-","(","x","^","2",")",")">>
ExprSinusoid == <<"A","*","s","i","n","(","k","*","x","+","p","h","i",")">>
ExprRemainder == <<"x","%","2">>
ExprRamp == <<"a","m","p","*","x">>
ExprReciprocal == <<"1","/","x">>
ExprMixed == <<"s","q","r","t","(","k","0",")","+","k","*","t","a","n","h","(","x",")">>
ExprMathE == <<"M","a","t","h",".","E">>
ExprLogarithm == <<"l","o","g","(","x",")">>
ExprConstants == <<"p","i","*","e","+","t">>
ExprHash == <<"x","#","2">>
ExprLinear == <<"k","k","*","x">>

\* the expressions the user types into a custom-function field
ExprInputs ==
  { ExprEmpty, ExprBlank, ExprHarmonic, ExprGaussian,
    ExprHalfGaussian, ExprBracketedGaussian, ExprSinusoid, ExprRemainder,
    ExprRamp, ExprReciprocal, ExprMixed, ExprMathE,
    ExprLogarithm, ExprConstants, ExprHash, ExprLinear }

\* the grid points the expressions are evaluated at
XInputs == {N(0), N(2), N(-1)}

Param(name, value) == createParameter(name, value, N(-10), N(10), Rat(1, 10), "")

\* the parameters the sets are made of
ParameterPool ==
  { Param(<<"A">>, N(2)), Param(<<"k">>, Rat(-1, 2)), Param(<<"k","0">>, N(4)),
    Param(<<"k","k">>, NaN), Param(<<"N","a","N">>, N(2)) }

\* the parameters of the documented example A*sin(k*x+phi)
SinusoidParameters ==
  << Param(<<"A">>, N(2)), Param(<<"k">>, Rat(-1, 2)), Param(<<"p","h","i">>, N(0)) >>

\* the largest number of entries of a parameter set
MaxParameters == 2

\* a parameter set, as the list of its entries in insertion order
ParameterSetInputs ==
  { ps \in UNION { [1..n -> ParameterPool] : n \in 0..MaxParameters } :
      \A i, j \in DOMAIN ps : i # j => ps[i].name # ps[j].name }
  \cup {SinusoidParameters}

EvalCall(fn, realExpr, imagExpr, x, pset, r) ==
  [fn |-> fn, realExpr |-> realExpr, imagExpr |-> imagExpr, x |-> x, pset |-> pset,
   ok |-> r.ok, real |-> r.real, imag |-> r.imag]

\* createCustomFunctionPotential's evaluator at one grid point
EvaluatePotential(expr, x, pset) ==
  /\ call = NoCall
  /\ LET r == safeEvalPotential(expr, x, pset)
     IN  call' = EvalCall("potential", expr, <<>>, x, pset,
                          IF r.ok THEN Complex(r.v, N(0)) ELSE ComplexError)
  /\ UNCHANGED <<paramVars, solverVars, appVars>>

\* wavefunctions.ts parseComplexFunction at one grid point, t = 0
EvaluateWavefunction(realExpr, imagExpr, x, pset) ==
  /\ call = NoCall
  /\ call' = EvalCall("wavefunction", realExpr, imagExpr, x, pset,
                      parseComplexFunction(realExpr, imagExpr, x, N(0), pset))
  /\ UNCHANGED <<paramVars, solverVars, appVars>>

\* tdse-solver.ts parseComplexFunction at one grid point, t = 0
EvaluateSolverWavefunction(realExpr, imagExpr, x, pset) ==
  /\ call = NoCall
  /\ call' = EvalCall("solver", realExpr, imagExpr, x, pset,
                      parseComplexFunctionSolver(realExpr, imagExpr, x, N(0), pset))
  /\ UNCHANGED <<paramVars, solverVars, appVars>>

\* validatePotentialFunction, and beside it what the generator's evaluator
\* gives at the same test values
ValidatePotentialFunction(expr, pset) ==
  /\ call = NoCall
  /\ call' = [fn |-> "validatePotentialFunction", expr |-> expr, pset |-> pset,
              valid |-> validatePotentialFunction(expr, pset).valid,
              tested |-> [i \in DOMAIN testValues |-> TestExpr(expr, testValues[i], pset)],
              generated |-> [i \in DOMAIN testValues |->
                               safeEvalPotential(expr, testValues[i], pset)]]
  /\ UNCHANGED <<paramVars, solverVars, appVars>>

ExtractNames(expr) ==
  /\ call = NoCall
  /\ call' = [fn |-> "extract", expr |-> expr, names |-> extractParameterNames(expr)]
  /\ UNCHANGED <<paramVars, solverVars, appVars>>

Substitute(expr, pset) ==
  /\ call = NoCall
  /\ call' = [fn |-> "substitute", expr |-> expr, pset |-> pset,
              out |-> substituteParameters(expr, pset)]
  /\ UNCHANGED <<paramVars, solverVars, appVars>>

\* the caller takes the result; the next call can be made
Return ==
  /\ call # NoCall
  /\ call' = NoCall
  /\ UNCHANGED <<paramVars, solverVars, appVars>>

InitExpr == InitParams

NextExpr ==
  \/ \E e \in ExprInputs, ps \in ParameterSetInputs : ValidatePotentialFunction(e, ps)
  \/ \E e \in ExprInputs, x \in XInputs, ps \in ParameterSetInputs :
       EvaluatePotential(e, x, ps)
  \/ \E e \in ExprInputs, im \in {ExprEmpty, <<"x">>}, x \in XInputs,
        ps \in ParameterSetInputs : EvaluateWavefunction(e, im, x, ps)
  \/ \E e \in ExprInputs, im \in {ExprEmpty, <<"x">>}, x \in XInputs,
        ps \in ParameterSetInputs : EvaluateSolverWavefunction(e, im, x, ps)
  \/ \E e \in ExprInputs : ExtractNames(e)
  \/ \E e \in ExprInputs, ps \in ParameterSetInputs : Substitute(e, ps)
  \/ Return

SpecExpr == InitExpr /\ [][NextExpr]_vars

(***************************************************************************)
(* The solver, a state and the potential generator, called in any order    *)
(***************************************************************************)
\* the requested grid sizes: 1, the powers of two 2 and 4, and 3 in between.
\* The grids have 2 or 4 points, the sizes whose Fourier kernel is made of
\* whole quarter turns.
RequestedGridSizes == 1..4
MaxSteps == 2

\* SimulationParameters
ParamsInputs(sizes) ==
  { [gridSize |-> g, xMin |-> d[1], xMax |-> d[2], dt |-> dt, hbar |-> 1, mass |-> 1] :
      g \in sizes, d \in {<<-2, 2>>, <<0, 4>>}, dt \in {1} }

Point(px, py) == [x |-> N(px), y |-> N(py)]

\* configurations whose arrays give whole quarter turns
PhaseConfigInputs ==
  { PotentialConfig("free"),
    PotentialConfig("barrier"),
    [PotentialConfig("barrier") EXCEPT !.v0 = Rat(1, 2), !.x0 = N(1), !.width = N(4)],
    PotentialConfig("well"),
    PotentialConfig("harmonic"),
    [PotentialConfig("custom-function") EXCEPT !.customFunction = ExprHarmonic],
    [PotentialConfig("custom-function") EXCEPT !.customFunction = <<"x">>],
    PotentialConfig("custom-draw"),
    [PotentialConfig("custom-draw") EXCEPT !.customPoints = <<Point(2, 2), Point(-2, 0)>>],
    [PotentialConfig("custom-draw") EXCEPT !.customPoints = <<Point(1, 3)>>],
    [PotentialConfig("custom-draw") EXCEPT
       !.customPoints = <<Point(0, 4), Point(2, 2), Point(-2, 0)>>],
    \* a stroke that passes twice, and three times, through the same x
    [PotentialConfig("custom-draw") EXCEPT
       !.customPoints = <<Point(-1, 0), Point(0, 4), Point(0, 2), Point(3, 1)>>],
    [PotentialConfig("custom-draw") EXCEPT
       !.customPoints = <<Point(1, 3), Point(1, 0), Point(1, 2)>>],
    \* a type that is none of the six
    PotentialConfig("unknown") }

ConfigInputs ==
  PhaseConfigInputs \cup
  { PotentialConfig("custom-function"),
    [PotentialConfig("custom-function") EXCEPT !.customFunction = ExprRamp],
    [PotentialConfig("custom-function") EXCEPT !.customFunction = ExprMathE],
    [PotentialConfig("custom-function") EXCEPT !.customFunction = ExprReciprocal],
    [PotentialConfig("custom-function") EXCEPT !.customFunction = ExprGaussian] }

\* the configurations whose arrays are handed to setPotential
SetConfigInputs ==
  { PotentialConfig("barrier"),
    PotentialConfig("harmonic") }

SolverParameterSets == { <<>>, <<Param(<<"a","m","p">>, N(1))>> }

\* the arrays handed to setPotential: zero arrays of every length up to the
\* largest grid, and generated arrays of the solver's own grid
ArrayInputs(s) ==
  IF s = NoSolver THEN {} ELSE
  { [i \in 1..n |-> N(0)] : n \in RequestedGridSizes } \cup
  { generatePotential(s.x, config, N(s.params.mass), <<>>).V : config \in SetConfigInputs }

\* real part, imaginary part, parameters
CustomWavefunctionInputs ==
  { <<ExprEmpty, ExprEmpty, <<>>>>,
    <<<<"x">>, ExprEmpty, <<>>>>,
    <<ExprHarmonic, <<"x">>, <<>>>>,
    <<ExprRamp, ExprEmpty, <<>>>>,
    <<ExprRamp, ExprEmpty, <<Param(<<"a","m","p">>, N(1))>>>>,
    <<ExprReciprocal, ExprEmpty, <<>>>>,
    <<ExprGaussian, ExprEmpty, <<>>>> }

Construct(params) ==
  /\ call = NoCall
  /\ LET r == TDSESolver(params)
     IN  /\ solver' = IF r.ok THEN r.solver ELSE solver
         /\ outcome' = IF r.ok THEN "ok" ELSE "error"
  /\ call' = [fn |-> "construct", params |-> params]
  /\ UNCHANGED <<paramVars, state, appVars>>

SetPotential(V) ==
  /\ call = NoCall
  /\ solver # NoSolver
  /\ LET r == setPotential(solver, V)
     IN  /\ solver' = r.solver
         /\ outcome' = IF r.ok THEN "ok" ELSE "error"
  /\ call' = [fn |-> "setPotential", V |-> V]
  /\ UNCHANGED <<paramVars, state, appVars>>

GeneratePotential(config, pset) ==
  /\ call = NoCall
  /\ solver # NoSolver
  /\ LET r == generatePotential(solver.x, config, N(solver.params.mass), pset)
     IN  /\ outcome' = IF r.ok THEN "ok" ELSE "error"
         /\ call' = [fn |-> "generatePotential", config |-> config, pset |-> pset,
                     V |-> r.V]
  /\ UNCHANGED <<paramVars, solver, state, appVars>>

Initialized(fn, args, st) ==
  /\ state' = st
  /\ outcome' = "ok"
  /\ call' = [fn |-> fn, args |-> args]
  /\ UNCHANGED <<paramVars, solver, appVars>>

CreateGaussianWavepacket(x0, sigma, k0) ==
  /\ call = NoCall
  /\ solver # NoSolver
  /\ Initialized("createGaussianWavepacket", <<x0, sigma, k0>>,
                 createGaussianWavepacket(solver, x0, sigma, k0))

CreatePlaneWave(amplitude, k0) ==
  /\ call = NoCall
  /\ solver # NoSolver
  /\ Initialized("createPlaneWave", <<amplitude, k0>>,
                 createPlaneWave(solver, amplitude, k0))

CreateBoundState(n, L) ==
  /\ call = NoCall
  /\ solver # NoSolver
  /\ Initialized("createBoundState", <<n, L>>, createBoundState(solver, n, L))

CreateCustomWavefunction(realExpr, imagExpr, pset) ==
  /\ call = NoCall
  /\ solver # NoSolver
  /\ Initialized("createCustomWavefunction", <<realExpr, imagExpr, pset>>,
                 createCustomWavefunction(solver, realExpr, imagExpr, pset))

\* a step that works on a copy: the caller's state stays as it was
MutStep ==
  /\ call = NoCall
  /\ solver # NoSolver
  /\ state # NoState
  /\ state.time < MaxSteps * solver.params.dt
  /\ state' = state
  /\ outcome' = "ok"
  /\ call' = [fn |-> "step", returned |-> step(solver, state)]
  /\ UNCHANGED <<paramVars, solver, appVars>>

\* solver.step(state): state is the caller's object, written in place, and
\* "return state" hands the same object back
Step ==
  /\ call = NoCall
  /\ solver # NoSolver
  /\ state # NoState
  /\ state.time < MaxSteps * solver.params.dt
  /\ state' = step(solver, state)
  /\ outcome' = "ok"
  /\ call' = [fn |-> "step", returned |-> state']
  /\ UNCHANGED <<paramVars, solver, appVars>>

InitSolver == InitParams

NextSolver ==
  \/ \E params \in ParamsInputs(RequestedGridSizes) :
       solver = NoSolver /\ Construct(params)
  \/ \E V \in ArrayInputs(solver) : SetPotential(V)
  \/ \E config \in ConfigInputs, pset \in SolverParameterSets :
       GeneratePotential(config, pset)
  \/ \E sigma \in {N(0), N(1)} : CreateGaussianWavepacket(N(0), sigma, N(1))
  \/ \E amplitude \in {N(0), N(1)} : CreatePlaneWave(amplitude, N(1))
  \/ \E nL \in {<<1, 2>>, <<3, 2>>, <<1, 0>>} : CreateBoundState(N(nL[1]), N(nL[2]))
  \/ \E input \in CustomWavefunctionInputs :
       CreateCustomWavefunction(input[1], input[2], input[3])
  \/ Step
  \/ Return

SpecSolver == InitSolver /\ [][NextSolver]_vars

(***************************************************************************)
(* The constructor alone, over a wider range of requested grid sizes       *)
(***************************************************************************)
MaxGridSize == 40

InitConstruct == InitParams

NextConstruct ==
  \/ \E params \in ParamsInputs(1..MaxGridSize \cup {300}) : Construct(params)
  \/ Return

SpecConstruct == InitConstruct /\ [][NextConstruct]_vars

(***************************************************************************)
(* The solver and a caller that keeps the record it passed                 *)
(*                                                                         *)
(* "this.params = params" stores the caller's own object: solver.params is *)
(* the record the caller still holds, as the constructor left it, and a    *)
(* write of the caller to its record is a write to solver.params.          *)
(***************************************************************************)
DtInputs == {1, 2}

\* the caller assigns params.dt on the record it passed to the constructor
ModifyRecord(dt) ==
  /\ call = NoCall
  /\ solver # NoSolver
  /\ solver' = [solver EXCEPT !.params.dt = dt]
  /\ outcome' = "ok"
  /\ call' = [fn |-> "modifyRecord", dt |-> dt]
  /\ UNCHANGED <<paramVars, state, appVars>>

InitCaller == InitParams

NextCaller ==
  \/ \E params \in ParamsInputs(RequestedGridSizes) :
       solver = NoSolver /\ Construct(params)
  \/ \E dt \in DtInputs : ModifyRecord(dt)
  \/ \E V \in ArrayInputs(solver) : SetPotential(V)
  \/ \E sigma \in {N(0), N(1)} : CreateGaussianWavepacket(N(0), sigma, N(1))
  \/ Step
  \/ Return

SpecCaller == InitCaller /\ [][NextCaller]_vars

(***************************************************************************)
(* The expression as the specification reads it: a sequence of tokens,     *)
(* where a token is a maximal run of word characters or a single other     *)
(* character                                                               *)
(***************************************************************************)
IdentifierStarts(s) == {p \in DOMAIN s : BoundaryBefore(s, p) /\ s[p] \in Letters}

IdentifierTokens(s) == {SubSeq(s, p, WordEnd(s, p)) : p \in IdentifierStarts(s)}

NamesOf(pset) == {pset[i].name : i \in DOMAIN pset}

ValueOf(pset, name) == pset[CHOOSE i \in DOMAIN pset : pset[i].name = name].value

\* every token that is a parameter name replaced by its parenthesised value
RECURSIVE SubstituteTokens(_, _, _)
SubstituteTokens(s, p, pset) ==
  IF p > Len(s) THEN <<>>
  ELSE IF IsWordAt(s, p) THEN
    LET q == WordEnd(s, p)
        token == SubSeq(s, p, q)
    IN  (IF token \in NamesOf(pset) THEN Parenthesised(ValueOf(pset, token)) ELSE token)
        \o SubstituteTokens(s, q + 1, pset)
  ELSE <<s[p]>> \o SubstituteTokens(s, p + 1, pset)

\* the identifier tokens that are not reserved and not followed by "("
ParameterTokens(s) ==
  { SubSeq(s, p, WordEnd(s, p)) : p \in
      { q \in IdentifierStarts(s) :
          /\ ToLowerCase(SubSeq(s, q, WordEnd(s, q))) \notin reservedKeywords
          /\ ~CallFollows(s, WordEnd(s, q) + 1) } }

SupportedFunctionNames == {FunctionRewrites[i][1] : i \in DOMAIN FunctionRewrites}

\* an identifier that is not x, t, i, pi, e, a supported function or a
\* parameter of the set
HasUnboundIdentifier(s, pset) ==
  \E token \in IdentifierTokens(s) :
    /\ token \notin {<<"x">>, <<"t">>, <<"i">>, <<"e">>}
    /\ ToLowerCase(token) # <<"p","i">>
    /\ token \notin SupportedFunctionNames
    /\ token \notin NamesOf(pset)

Evaluators == {"potential", "wavefunction", "solver"}

\* C5: every evaluator fails when the expression is empty, holds a character
\* outside the allowed set or references an unbound identifier, and a
\* successful evaluation yields finite numbers only.
C5_EvaluatorsFail ==
  call.fn \in Evaluators =>
    /\ call.ok => IsFinite(call.real) /\ IsFinite(call.imag)
    /\ ( \/ TrimIsEmpty(call.realExpr) /\ TrimIsEmpty(call.imagExpr)
         \/ \E e \in {call.realExpr, call.imagExpr} :
              ~PassesSafetyCheck(e) \/ HasUnboundIdentifier(e, call.pset) )
       => ~call.ok

\* C6: extractParameterNames returns exactly the identifier tokens, of one
\* letter or more, that are not reserved and not followed by "(", each once;
\* for A*sin(k*x+phi) these are A, k and phi.
C6_ExtractsIdentifierTokens ==
  call.fn = "extract" =>
    /\ Range(call.names) = ParameterTokens(call.expr)
    /\ Cardinality(Range(call.names)) = Len(call.names)
    /\ call.expr = ExprSinusoid =>
         Range(call.names) = {<<"A">>, <<"k">>, <<"p","h","i">>}

\* C9: substituteParameters replaces the tokens that are parameter names by
\* their parenthesised values and leaves every other token as it is, for
\* every parameter set in every order of its entries.
C9_WholeTokensOnly ==
  call.fn = "substitute" =>
    call.out = SubstituteTokens(call.expr, 1, call.pset)

Exp(v) == MathCall(<<"e","x","p">>, v)

\* C10: ^ is the power operator: 0.5*x^2 is 0.5*x*x, and exp(-x^2) and
\* exp(-x^2/2) evaluate to the exponential of the negated square.
C10_PowerBeforeNegation ==
  (call.fn \in Evaluators /\ call.imagExpr = ExprEmpty) =>
    /\ call.realExpr = ExprHarmonic =>
         call.ok /\ call.real = Mul(Rat(1, 2), Mul(call.x, call.x))
    /\ call.realExpr = ExprGaussian =>
         call.ok /\ call.real = Exp(Neg(Mul(call.x, call.x)))
    /\ call.realExpr = ExprHalfGaussian =>
         call.ok /\ call.real = Exp(Neg(Div(Mul(call.x, call.x), N(2))))

(***************************************************************************)
(* The solver's contract                                                   *)
(***************************************************************************)
Initializers ==
  {"createGaussianWavepacket", "createPlaneWave", "createBoundState",
   "createCustomWavefunction"}

\* setPotential has succeeded: every entry of the half-step operator is a
\* phase factor (the constructor leaves the operator filled with zeros)
PotentialWasSet(s) == \A i \in DOMAIN s.expVhalf : s.expVhalf[i] # <<0, 0>>

TotalProbabilityIsOne(s, st) == getTotalProbability(s, st) = N(1)

AllZero(st) ==
  ~st.nan /\ \A i \in DOMAIN st.real : st.real[i] = 0 /\ st.imag[i] = 0

\* C2, as stated: once the potential is set, the state an initializer returns
\* has total probability 1 (no step taken) and so has the state after the
\* first step on it (the cases n = 0 and n = 1 of "after n steps").
C2_ProbabilityOneAfterSteps ==
  [][ (call = NoCall /\ solver # NoSolver /\ PotentialWasSet(solver)) =>
        /\ call'.fn \in Initializers => TotalProbabilityIsOne(solver', state')
        /\ (call'.fn = "step" /\ state.time = 0) => TotalProbabilityIsOne(solver', state')
    ]_vars

\* C2, amended: on a solver whose potential is set, a step on a state of
\* total probability 1 gives a state of total probability 1; by induction the
\* total probability is 1 after any number of steps on an initial state of
\* total probability 1.
C2_StepKeepsProbabilityOne ==
  [][ ( /\ call = NoCall /\ call'.fn = "step"
        /\ PotentialWasSet(solver)
        /\ TotalProbabilityIsOne(solver, state) )
      => TotalProbabilityIsOne(solver', state') ]_vars

\* two steps taken under a potential that is not zero everywhere
C2_TwoStepsTaken ==
  /\ call.fn = "step"
  /\ state.time = 2 * solver.params.dt
  /\ PotentialWasSet(solver)
  /\ \E i \in DOMAIN solver.potential : ~IsZero(solver.potential[i])
  /\ \E i \in DOMAIN state.real : state.real[i] # 0 /\ state.imag[i] # 0
  /\ TotalProbabilityIsOne(solver, state)

\* C3: setPotential(V) fails when the length of V differs from the solver's
\* grid size and then leaves the stored potential and the half-step operator
\* as they were; with the grid's length it succeeds and stores V.
C3_SetPotentialChecksLength ==
  [][ (call = NoCall /\ call'.fn = "setPotential") =>
        IF Len(call'.V) # solver.params.gridSize
          THEN /\ outcome' = "error"
               /\ solver'.potential = solver.potential
               /\ solver'.expVhalf = solver.expVhalf
          ELSE /\ outcome' = "ok"
               /\ solver'.potential = call'.V ]_vars

\* a call with the wrong length on a solver that holds a potential
C3_RejectedAfterSet ==
  /\ call.fn = "setPotential"
  /\ outcome = "error"
  /\ Len(call.V) # solver.params.gridSize
  /\ PotentialWasSet(solver)
  /\ \E i \in DOMAIN solver.potential : ~IsZero(solver.potential[i])

\* an identifier the expression uses as a parameter that the set does not hold
ReferencesUndefinedParameter(expr, pset) == ParameterTokens(expr) \ NamesOf(pset) # {}

\* C4: with an expression that references an undefined parameter,
\* createCustomWavefunction returns a state in which every failing grid point
\* is (0,0), and generatePotential fails and returns no array.
C4_UndefinedParameterAsymmetry ==
  /\ ( /\ call.fn = "createCustomWavefunction"
       /\ \E e \in {call.args[1], call.args[2]} :
            ReferencesUndefinedParameter(e, call.args[3]) )
     => /\ outcome = "ok"
        /\ state # NoState
        /\ \A i \in DOMAIN solver.x :
             ~parseComplexFunctionSolver(call.args[1], call.args[2], solver.x[i],
                                         N(0), call.args[3]).ok
             => state.real[i] = 0 /\ state.imag[i] = 0
  /\ ( /\ call.fn = "generatePotential"
       /\ call.config.type = "custom-function"
       /\ ReferencesUndefinedParameter(call.config.customFunction, call.pset) )
     => outcome = "error" /\ call.V = <<>>

PowersOfTwo == { IntPow(2, e) : e \in 0..9 }

SmallestPowerOfTwoAtLeast(g) ==
  CHOOSE p \in PowersOfTwo : p >= g /\ \A q \in PowersOfTwo : q >= g => p <= q

\* C7: for every requested grid size g >= 1 a solver is constructed whose grid
\* size is the smallest power of two >= g, and its grids, potential and
\* operator arrays have that length.
C7_GridSizeRoundedUp ==
  call.fn = "construct" =>
    /\ outcome = "ok"
    /\ LET n == SmallestPowerOfTwoAtLeast(call.params.gridSize)
       IN  /\ solver.params.gridSize = n
           /\ Len(solver.x) = n /\ Len(solver.k) = n
           /\ Len(solver.potential) = n
           /\ Len(solver.expVhalf) = n /\ Len(solver.expT) = n

\* C8: an initializer returns a state at time 0 that has total probability 1
\* or is the all-zero state, with no NaN entry.
C8_InitializerContract ==
  call.fn \in Initializers =>
    /\ state.time = 0
    /\ TotalProbabilityIsOne(solver, state) \/ AllZero(state)

SameRange(p, q) ==
  /\ q.name = p.name /\ q.min = p.min /\ q.max = p.max
  /\ q.step = p.step /\ q.description = p.description

\* r is v clamped into [min, max]
ClampedInto(v, min, max, r) ==
  /\ Leq(min, max) => Leq(min, r) /\ Leq(r, max)
  /\ (Leq(min, v) /\ Leq(v, max)) => r = v
  /\ (Leq(min, max) /\ Lt(v, min)) => r = min
  /\ (Leq(min, max) /\ Lt(max, v)) => r = max

\* C12: updating a parameter's value gives the parameter with the new value
\* clamped into its [min, max] and with the same name, min, max, step and
\* description; nothing else of the set changes.
C12_UpdateClamps ==
  [][ \A n \in DOMAIN parameters, v \in UpdateValueInputs :
        handleParameterUpdate(n, v) =>
          /\ DOMAIN parameters' = DOMAIN parameters
          /\ SameRange(parameters[n], parameters'[n])
          /\ ClampedInto(v, parameters[n].min, parameters[n].max, parameters'[n].value)
          /\ \A m \in DOMAIN parameters \ {n} : parameters'[m] = parameters[m]
    ]_vars

\* the numbers the range fields send in the model
RangeEdits ==
  { <<f, v>> : f \in {"min", "max"}, v \in RangeInputs } \cup { <<"step", Rat(1, 2)>> }

FieldOf(p, field) ==
  CASE field = "min" -> p.min [] field = "max" -> p.max [] field = "step" -> p.step

\* C13: a range edit sets the named field and nothing else (the value and
\* the other parameters stay), and an update of the value after range edits
\* leaves the parameter with min <= value <= max.
C13_RangeEditThenUpdate ==
  [][ /\ \A n \in DOMAIN parameters, e \in RangeEdits :
           handleParameterRangeUpdate(n, e[1], e[2]) =>
             /\ DOMAIN parameters' = DOMAIN parameters
             /\ FieldOf(parameters'[n], e[1]) = e[2]
             /\ \A f \in RangeFields \ {e[1]} :
                  FieldOf(parameters'[n], f) = FieldOf(parameters[n], f)
             /\ parameters'[n].value = parameters[n].value
             /\ parameters'[n].name = parameters[n].name
             /\ \A m \in DOMAIN parameters \ {n} : parameters'[m] = parameters[m]
      /\ \A n \in DOMAIN parameters, v \in ValueInputs :
           handleParameterUpdate(n, v) => InRange(parameters'[n])
    ]_vars

\* ^[A-Za-z][A-Za-z0-9]*$
IsIdentifier(name) ==
  /\ Len(name) >= 1
  /\ name[1] \in Letters
  /\ \A j \in 2..Len(name) : name[j] \in Letters \cup Digits

\* x, t, i, pi, e and the supported function names
ReservedIdentifiers ==
  {<<"x">>, <<"t">>, <<"i">>, <<"p","i">>, <<"e">>} \cup SupportedFunctionNames

\* C14: every name in the ParameterSet is an identifier of two characters or
\* more and is not a reserved identifier.
C14_NamesValid ==
  \A n \in DOMAIN parameters :
    IsIdentifier(n) /\ Len(n) >= 2 /\ n \notin ReservedIdentifiers

\* C15: an add with an empty, malformed or already present name reports an
\* error and leaves the ParameterSet as it was; an add that reports no error
\* inserts one entry under the new name and leaves the others as they were.
C15_AddRejectsOrInserts ==
  [][ \A name \in NameInputs, v \in ValueInputs :
        handleAddParameter(name, v) =>
          /\ (TrimIsEmpty(name) \/ ~IsIdentifier(name) \/ name \in DOMAIN parameters)
               => (error' # "" /\ parameters' = parameters)
          /\ error' # "" => parameters' = parameters
          /\ error' = "" =>
               /\ name \notin DOMAIN parameters
               /\ DOMAIN parameters' = DOMAIN parameters \cup {name}
               /\ parameters'[name].name = name
               /\ \A m \in DOMAIN parameters : parameters'[m] = parameters[m]
    ]_vars

\* an add of a name that is present was rejected
C15_DuplicateRejected ==
  /\ error = "Parameter already exists"
  /\ Cardinality(DOMAIN parameters) >= 1

(***************************************************************************)
(* The drawn potential                                                     *)
(***************************************************************************)
\* the control point of the smallest x, and of the largest
Leftmost(points) ==
  CHOOSE p \in Range(points) : \A q \in Range(points) : Leq(p.x, q.x)
Rightmost(points) ==
  CHOOSE p \in Range(points) : \A q \in Range(points) : Leq(q.x, p.x)

\* the piecewise-linear function through the control points, flat outside
\* their span
PiecewiseLinear(points, xi) ==
  IF Leq(xi, Leftmost(points).x) THEN Leftmost(points).y
  ELSE IF Leq(Rightmost(points).x, xi) THEN Rightmost(points).y
  ELSE LET l == CHOOSE p \in Range(points) :
                  /\ Leq(p.x, xi)
                  /\ \A q \in Range(points) : Leq(q.x, xi) => Leq(q.x, p.x)
           r == CHOOSE p \in Range(points) :
                  /\ Lt(xi, p.x)
                  /\ \A q \in Range(points) : Lt(xi, q.x) => Leq(p.x, q.x)
       IN  Add(l.y, Div(Mul(Sub(xi, l.x), Sub(r.y, l.y)), Sub(r.x, l.x)))

\* the control points of the call that share their x with another one
SharedX(points) ==
  { i \in DOMAIN points : \E j \in DOMAIN points : j # i /\ points[j].x = points[i].x }

DrawnCall ==
  /\ call.fn = "generatePotential"
  /\ call.config.type = "custom-draw"
  /\ Len(call.config.customPoints) >= 1

\* C16: for control points in any order, no two of the same x, the drawn
\* potential is at every grid point the piecewise-linear function through
\* the points, with the leftmost y at and left of the leftmost point and the
\* rightmost y at and right of the rightmost point.
C16_DrawnIsPiecewiseLinear ==
  (DrawnCall /\ SharedX(call.config.customPoints) = {}) =>
    /\ outcome = "ok"
    /\ Len(call.V) = Len(solver.x)
    /\ \A i \in DOMAIN solver.x :
         call.V[i] = PiecewiseLinear(call.config.customPoints, solver.x[i])

\* three points given out of order, a grid point strictly inside a segment
\* and a grid point right of the last control point
C16_UnsortedPointsDrawn ==
  /\ DrawnCall
  /\ Len(call.config.customPoints) = 3
  /\ Lt(call.config.customPoints[3].x, call.config.customPoints[1].x)
  /\ \E i \in DOMAIN solver.x :
       \A q \in Range(call.config.customPoints) : solver.x[i] # q.x /\ Lt(q.x, solver.x[i])
  /\ \E i \in DOMAIN solver.x :
       /\ Lt(Leftmost(call.config.customPoints).x, solver.x[i])
       /\ Lt(solver.x[i], Rightmost(call.config.customPoints).x)
       /\ \A q \in Range(call.config.customPoints) : solver.x[i] # q.x

(***************************************************************************)
(* The order of a step                                                     *)
(***************************************************************************)
\* potential half-step, forward transform, kinetic multiply, inverse
\* transform divided by n, potential half-step, time advance, normalisation
SplitOperatorSequence(s, st) ==
  LET n == s.params.gridSize
      half1 == applyPotentialOperator(s, st)
      inK == transform(half1)
      kinetic == applyKineticOperator(s, inK)
      back == inverseTransform(kinetic)
      half2 == applyPotentialOperator(s, back)
      advanced == [st EXCEPT !.real = half2.real, !.imag = half2.imag,
                             !.den2 = Mul(st.den2, N(n * n)),
                             !.time = st.time + s.params.dt]
  IN  normalize(s, Canonical(advanced))

GridsOf(s) ==
  LET n == s.params.gridSize
      dx == Rat(s.params.xMax - s.params.xMin, n)
  IN  /\ Len(s.x) = n
      /\ Len(s.k) = n
      /\ \A i \in 1..n :
           /\ s.x[i] = Add(N(s.params.xMin), Mul(N(i - 1), dx))
           /\ s.k[i] = IF 2 * (i - 1) < n THEN i - 1 ELSE i - 1 - n

\* C19: after every call the solver's x and k are the grids of its
\* parameters, and the kinetic operator is the one the constructor computed:
\* no later call changes x, k or the kinetic operator.
C19_GridsFixed ==
  [][ solver' # NoSolver =>
        /\ GridsOf(solver')
        /\ solver = NoSolver =>
             solver'.expT = updateKineticOperator(solver'.params, solver'.k)
        /\ solver # NoSolver =>
             /\ solver'.x = solver.x
             /\ solver'.k = solver.k
             /\ solver'.expT = solver.expT ]_vars

\* a potential set on a grid of four points after two steps
C19_PotentialSetAfterSteps ==
  /\ call.fn = "setPotential"
  /\ outcome = "ok"
  /\ solver.params.gridSize = 4
  /\ state # NoState
  /\ state.time = 2 * solver.params.dt

(***************************************************************************)
(* The solver's parameters                                                 *)
(***************************************************************************)
\* C20: the constructor leaves the record it is given as it was, and the
\* dt that step and setPotential use is the dt from which the kinetic
\* operator was computed, also after the caller has changed its record.
C20_ParametersFixed ==
  [][ /\ (call = NoCall /\ call'.fn = "construct" /\ outcome' = "ok") =>
           solver'.params = call'.params
      /\ (call = NoCall /\ call'.fn \in {"step", "setPotential"}) =>
           solver.expT = updateKineticOperator(solver.params, solver.k) ]_vars

(***************************************************************************)
(* The generated arrays                                                    *)
(***************************************************************************)
PotentialTypes ==
  {"free", "barrier", "well", "harmonic", "custom-function", "custom-draw"}

\* C24: the array generatePotential returns has the length of the grid it
\* was given, whatever the type of the configuration, so that setPotential
\* accepts it.
C24_GeneratedLength ==
  (call.fn = "generatePotential" /\ outcome = "ok") =>
    /\ Len(call.V) = Len(solver.x)
    \* the test of setPotential
    /\ ~(Len(call.V) # solver.params.gridSize)

\* a potential generated for a type that is none of the six
C24_UnknownTypeGenerated ==
  /\ call.fn = "generatePotential"
  /\ outcome = "ok"
  /\ call.config.type \notin PotentialTypes
  /\ Len(solver.x) = 4

\* C25: also when control points share an x, the drawn potential is finite
\* at every grid point and lies between the smallest and the largest y of
\* the control points.
C25_DrawnWithinRange ==
  DrawnCall =>
    \A i \in DOMAIN call.V :
      /\ IsFinite(call.V[i])
      /\ \E p \in Range(call.config.customPoints) : Leq(p.y, call.V[i])
      /\ \E p \in Range(call.config.customPoints) : Leq(call.V[i], p.y)

\* control points that share an x strictly inside the span of the stroke,
\* and a grid point at that x
C25_SharedXOnGrid ==
  /\ DrawnCall
  /\ outcome = "ok"
  /\ \E i \in SharedX(call.config.customPoints), g \in DOMAIN solver.x :
       /\ solver.x[g] = call.config.customPoints[i].x
       /\ Lt(Leftmost(call.config.customPoints).x, solver.x[g])
       /\ Lt(solver.x[g], Rightmost(call.config.customPoints).x)

(***************************************************************************)
(* Validation and generation                                               *)
(***************************************************************************)
\* C27: an expression the validator reports valid is evaluated by the
\* generator's evaluator at every test value, without failure and to the
\* value the validator found; an expression reported invalid fails in the
\* generator's evaluator at some test value.
C27_ValidationAgrees ==
  call.fn = "validatePotentialFunction" =>
    /\ call.valid =>
         \A i \in DOMAIN call.generated :
           call.generated[i].ok /\ call.generated[i].v = call.tested[i].v
    /\ ~call.valid => \E i \in DOMAIN call.generated : ~call.generated[i].ok

(***************************************************************************)
(* App: App.tsx                                                            *)
(*                                                                         *)
(* The grid and the packet of DEFAULT_CONFIG are scaled to the units of    *)
(* the solver above (4 grid points on a domain of length 4).  The grid of  *)
(* 16 points, the smallest on which checkBoundaries looks at any point, is *)
(* entered with the free potential and a plane wave of wavenumber 4 only:  *)
(* there every array has period 4 and the steps stay exact.  The fields    *)
(* energy and totalProbability of the saved file, which the load never     *)
(* reads, are left out.                                                    *)
(***************************************************************************)
DEFAULT_CONFIG ==
  [potentialType |-> "barrier", potentialV0 |-> N(5), potentialX0 |-> N(0),
   potentialWidth |-> N(2), potentialOmega |-> N(1),
   customPotentialFunction |-> ExprHarmonic, potentialParameters |-> <<>>,
   wavefunctionType |-> "gaussian", wavefunctionX0 |-> N(0),
   wavefunctionSigma |-> N(1), wavefunctionK0 |-> N(1),
   wavefunctionAmplitude |-> N(1), wavefunctionQuantumNumber |-> N(1),
   wavefunctionWellWidth |-> N(2), wavefunctionRealExpr |-> <<"x">>,
   wavefunctionImagExpr |-> ExprEmpty, wavefunctionParameters |-> <<>>,
   gridSize |-> 4, xMin |-> -2, xMax |-> 2, dt |-> 1, stepsPerFrame |-> 1]

NoFile == [kind |-> "none"]

\* the initial wavefunction of the effect's switch
InitialState(s, config) ==
  CASE config.wavefunctionType = "plane-wave" ->
         createPlaneWave(s, config.wavefunctionAmplitude, config.wavefunctionK0)
    [] config.wavefunctionType = "bound-state" ->
         createBoundState(s, config.wavefunctionQuantumNumber, config.wavefunctionWellWidth)
    [] config.wavefunctionType = "custom-function" ->
         createCustomWavefunction(s, config.wavefunctionRealExpr,
                                  config.wavefunctionImagExpr, config.wavefunctionParameters)
    [] OTHER ->
         createGaussianWavepacket(s, config.wavefunctionX0, config.wavefunctionSigma,
                                  config.wavefunctionK0)

\* the body of the effect "Initialize solver when config changes": a new
\* solver, the potential generated on its grid from the configuration and
\* the drawn points, and the initial state at time 0; ok is FALSE when the
\* body throws into its catch
NotInitialized == [ok |-> FALSE]

WithOperator(config, g, p) ==
  IF p.ok
    THEN [ok |-> TRUE, solver |-> p.solver, potential |-> g.V,
          state |-> [InitialState(p.solver, config) EXCEPT !.time = 0]]
    ELSE NotInitialized

\* a version that hands out the solver as the constructor left it
MutWithPotential(config, c, g) ==
  IF g.ok
    THEN [ok |-> TRUE, solver |-> c.solver, potential |-> g.V,
          state |-> [InitialState(c.solver, config) EXCEPT !.time = 0]]
    ELSE NotInitialized

WithPotential(config, c, g) ==
  IF g.ok THEN WithOperator(config, g, setPotential(c.solver, g.V)) ELSE NotInitialized

WithSolver(config, drawnPoints, c) ==
  IF c.ok
    THEN WithPotential(config, c,
           generatePotential(c.solver.x,
             [type |-> config.potentialType, v0 |-> config.potentialV0,
              x0 |-> config.potentialX0, width |-> config.potentialWidth,
              omega |-> config.potentialOmega,
              customFunction |-> config.customPotentialFunction,
              customPoints |-> drawnPoints],
             N(1), config.potentialParameters))
    ELSE NotInitialized

InitializeSimulation(config, drawnPoints) ==
  WithSolver(config, drawnPoints,
    TDSESolver([gridSize |-> config.gridSize, xMin |-> config.xMin,
                xMax |-> config.xMax, dt |-> config.dt, hbar |-> 1, mass |-> 1]))

\* validateWavefunctionFunctions: const testValues = [0, 1, -1, 0.5]
wavefunctionTestValues == << N(0), N(1), N(-1), Rat(1, 2) >>

WavefunctionValidationOf(realExpr, imagExpr, tested) ==
  [valid |-> ~(realExpr = <<>> /\ imagExpr = <<>>)
             /\ \A i \in DOMAIN tested :
                  tested[i].ok /\ IsFinite(tested[i].real) /\ IsFinite(tested[i].imag)]

validateWavefunctionFunctions(realExpr, imagExpr, pset) ==
  WavefunctionValidationOf(realExpr, imagExpr,
    [i \in DOMAIN wavefunctionTestValues |->
       parseComplexFunction(realExpr, imagExpr, wavefunctionTestValues[i], N(0), pset)])

\* the two validations at the head of the effect; the effect returns when
\* one of them fails
Validated(config) ==
  /\ config.potentialType = "custom-function" =>
       validatePotentialFunction(config.customPotentialFunction,
                                 config.potentialParameters).valid
  /\ config.wavefunctionType = "custom-function" =>
       validateWavefunctionFunctions(config.wavefunctionRealExpr,
                                     config.wavefunctionImagExpr,
                                     config.wavefunctionParameters).valid

\* what the handlers leave to the render that follows them: the effect
\* runs before the next event when one of its dependencies changed
Rendered(config, drawnPoints, isRunning, cause) ==
  /\ app.pending = "none"
  /\ app' = [app EXCEPT !.config = config, !.drawnPoints = drawnPoints,
                        !.isRunning = isRunning, !.pending = cause]
  /\ UNCHANGED <<paramVars, solverVars, call>>

\* setPotential, setSolver and setState of the effect, and
\* "boundaryWarningShownRef.current = false" at its end
Initialize(r) ==
  /\ app' = [app EXCEPT !.potential = IF r.ok THEN r.potential ELSE @,
                        !.boundaryWarningShown = IF r.ok THEN FALSE ELSE @,
                        !.pending = "none"]
  /\ solver' = IF r.ok THEN r.solver ELSE solver
  /\ state' = IF r.ok THEN r.state ELSE state

\* the effect "Initialize solver when config changes"; a body that returns
\* at a failed validation or throws sets nothing
useEffectInitialize ==
  /\ app.pending # "none"
  /\ LET r == IF Validated(app.config)
                THEN InitializeSimulation(app.config, app.drawnPoints)
                ELSE NotInitialized
     IN  Initialize(r)
  /\ UNCHANGED <<paramVars, outcome, call>>

\* the effect's dependency list: every field of config but stepsPerFrame,
\* primitives compared by value
DependenciesChanged(old, new) ==
  \E f \in DOMAIN old \ {"stepsPerFrame"} : old[f] # new[f]

\* "if (isRunning) setIsRunning(false); setConfig({ ...config, ...newConfig })"
handleConfigChange(newConfig) ==
  LET config == [f \in DOMAIN app.config |->
                   IF f \in DOMAIN newConfig THEN newConfig[f] ELSE app.config[f]]
  IN  Rendered(config, app.drawnPoints, FALSE,
               IF DependenciesChanged(app.config, config) THEN "config" ELSE "none")

\* setDrawnPoints(points); setDrawnPotentialVersion(v => v + 1); the
\* drawing canvas is rendered for the custom-draw type only
handleApplyDrawing(points) ==
  /\ app.config.potentialType = "custom-draw"
  /\ Rendered(app.config, points, app.isRunning, "drawing")

\* the button shows Play while the simulation is paused, Pause while it runs
handlePlay ==
  /\ ~app.isRunning
  /\ Rendered(app.config, app.drawnPoints, TRUE, "none")

handlePause ==
  /\ app.isRunning
  /\ Rendered(app.config, app.drawnPoints, FALSE, "none")

\* "setIsRunning(false)", and with a solver the state becomes a Gaussian
\* wavepacket at time 0 and boundaryWarningShownRef.current = false
handleReset ==
  /\ app.pending = "none"
  /\ solver # NoSolver
  /\ app' = [app EXCEPT !.isRunning = FALSE, !.boundaryWarningShown = FALSE]
  /\ state' = [createGaussianWavepacket(solver, app.config.wavefunctionX0,
                                        app.config.wavefunctionSigma,
                                        app.config.wavefunctionK0) EXCEPT !.time = 0]
  /\ UNCHANGED <<paramVars, solver, outcome, call>>

\* stepsPerFrame steps on the state
RECURSIVE Steps(_, _, _)
Steps(s, st, count) == IF count = 0 THEN st ELSE Steps(s, step(s, st), count - 1)

\* the end of a frame: the first time checkBoundaries is true the
\* simulation is paused and no further frame is requested
FrameEnd(stepped) ==
  /\ state' = stepped
  /\ app' = IF ~app.boundaryWarningShown /\ checkBoundaries(solver, stepped)
              THEN [app EXCEPT !.boundaryWarningShown = TRUE, !.isRunning = FALSE]
              ELSE app

\* a loop that goes on when isRunning is false
MutAnimate ==
  /\ app.pending = "none"
  /\ solver # NoSolver
  /\ state # NoState
  /\ state.time + app.config.stepsPerFrame * solver.params.dt <= MaxSteps * solver.params.dt
  /\ FrameEnd(Steps(solver, state, app.config.stepsPerFrame))
  /\ UNCHANGED <<paramVars, solver, outcome, call>>

\* one frame of the animation loop, which the start/stop effect keeps
\* requested while isRunning
animate ==
  /\ app.pending = "none"
  /\ app.isRunning
  /\ solver # NoSolver
  /\ state # NoState
  /\ state.time + app.config.stepsPerFrame * solver.params.dt <= MaxSteps * solver.params.dt
  /\ FrameEnd(Steps(solver, state, app.config.stepsPerFrame))
  /\ UNCHANGED <<paramVars, solver, outcome, call>>

\* JSON.stringify of Array.from(state.real), Array.from(state.imag) and
\* state.time: a NaN is written as null
JsonOfState(st) ==
  IF st = NoState THEN [kind |-> "null"]
  ELSE IF st.nan
    THEN [kind |-> "state", real |-> [i \in DOMAIN st.real |-> "null"],
          imag |-> [i \in DOMAIN st.imag |-> "null"], time |-> st.time]
    ELSE [kind |-> "state", real |-> st.real, imag |-> st.imag, den2 |-> st.den2,
          time |-> st.time]

\* the file written by handleSave; snapshot is the simulation at that moment
handleSave ==
  /\ app.pending = "none"
  /\ app' = [app EXCEPT
       !.file = [config |-> app.config, state |-> JsonOfState(state),
                 parameters |-> [potential |-> app.config.potentialParameters,
                                 wavefunction |-> app.config.wavefunctionParameters]],
       !.snapshot = [config |-> app.config, potential |-> app.potential,
                     state |-> state]]
  /\ UNCHANGED <<paramVars, solverVars, call>>

\* "if (data.config) setConfig(data.config)": nothing else of the file is
\* read.  The parsed config holds new parameter objects, so the effect runs.
handleLoad ==
  /\ app.file # NoFile
  /\ Rendered(app.file.config, app.drawnPoints, app.isRunning, "load")

NoRecording == [phase |-> "none"]

\* the Download Video button, disabled while isRecording, up to the wait of
\* 200 ms: the animation is stopped and the state is a Gaussian wavepacket
\* stepped floor(startTime / dt) times, its time set to startTime
handleDownloadVideo(frameRate, startTime, endTime) ==
  /\ app.pending = "none"
  /\ ~app.isRecording
  /\ ~(endTime <= startTime)
  /\ solver # NoSolver
  /\ state # NoState
  /\ app' = [app EXCEPT
       !.isRecording = TRUE,
       !.isRunning = FALSE,
       !.recording = [phase |-> "waiting", wasRunning |-> app.isRunning,
                      config |-> app.config, frameRate |-> frameRate,
                      startTime |-> startTime, endTime |-> endTime]]
  /\ LET resetState == [createGaussianWavepacket(solver, app.config.wavefunctionX0,
                                                  app.config.wavefunctionSigma,
                                                  app.config.wavefunctionK0)
                          EXCEPT !.time = 0]
         stepsToStart == startTime \div app.config.dt
     IN  state' = [Steps(solver, resetState, stepsToStart) EXCEPT !.time = startTime]
  /\ UNCHANGED <<paramVars, solver, outcome, call>>

\* after the wait: recorder.start() and the first request of recordFrame,
\* with totalFrames = floor(totalDuration * frameRate) and
\* simulationStepsPerFrame = max(1, floor(timePerFrame / dt))
recorderStart ==
  /\ app.pending = "none"
  /\ app.recording.phase = "waiting"
  /\ LET r == app.recording
         totalDuration == r.endTime - r.startTime
         totalFrames == totalDuration * r.frameRate
         perFrame == totalDuration \div (totalFrames * r.config.dt)
     IN  app' = [app EXCEPT !.recording =
                   [phase |-> "recording", wasRunning |-> r.wasRunning,
                    config |-> r.config, totalFrames |-> totalFrames,
                    simulationStepsPerFrame |-> IF perFrame < 1 THEN 1 ELSE perFrame,
                    currentFrame |-> 0]]
  /\ UNCHANGED <<paramVars, solverVars, call>>

\* one requested frame of the recording: past the last frame
\* recorder.stop(), else simulationStepsPerFrame steps on stateRef.current
recordFrame ==
  /\ app.pending = "none"
  /\ app.isRecording
  /\ app.recording.phase = "recording"
  /\ IF app.recording.currentFrame >= app.recording.totalFrames
       THEN /\ app' = [app EXCEPT !.recording.phase = "stopping"]
            /\ state' = state
       ELSE /\ app' = [app EXCEPT !.recording.currentFrame = @ + 1]
            /\ state' = Steps(solver, state, app.recording.simulationStepsPerFrame)
  /\ UNCHANGED <<paramVars, solver, outcome, call>>

\* recorder.onstop: setIsRecording(false), then handleConfigChange and
\* wasRunning of the render in which the recording was started
recorderOnstop ==
  /\ app.pending = "none"
  /\ app.recording.phase = "stopping"
  /\ app' = [app EXCEPT
       !.isRecording = FALSE,
       !.recording = NoRecording,
       !.config = app.recording.config,
       !.isRunning = IF app.recording.wasRunning THEN TRUE ELSE @,
       !.pending = IF DependenciesChanged(app.config, app.recording.config)
                     THEN "config" ELSE "none"]
  /\ UNCHANGED <<paramVars, solverVars, call>>

\* the frame rates and the times, in units of dt, entered for a recording
FrameRateInputs == {1, 2}
RecordingTimeInputs == {0, 1, 2}

AppPotentialTypes == {"free", "barrier", "harmonic", "custom-draw", "custom-function"}
AppWavefunctionTypes == {"gaussian", "bound-state", "plane-wave"}
DrawingInputs == { <<>>, <<Point(2, 2), Point(-2, 0)>> }
\* typed into the custom potential field: a valid expression, one that is
\* infinite at x = 0, and one that holds a character the generator refuses
AppExprInputs == { ExprHarmonic, ExprReciprocal, ExprRemainder }

\* the useState defaults, the effect of the first render still to run
InitApp ==
  /\ parameters = EmptyParameterSet
  /\ error = ""
  /\ solver = NoSolver
  /\ state = NoState
  /\ outcome = "none"
  /\ call = NoCall
  /\ app = [config |-> DEFAULT_CONFIG, drawnPoints |-> <<>>, potential |-> <<>>,
            isRunning |-> FALSE, boundaryWarningShown |-> FALSE,
            isRecording |-> FALSE, recording |-> NoRecording,
            panel |-> [potentialParameters |-> DEFAULT_CONFIG.potentialParameters,
                       wavefunctionParameters |-> DEFAULT_CONFIG.wavefunctionParameters],
            file |-> NoFile, snapshot |-> NoFile, pending |-> "mount"]

\* the type selects, whose onChange comes with a value other than the one
\* shown; the grid of 4 points is kept for every type
SelectPotentialType(type) ==
  /\ app.config.gridSize = 4
  /\ type # app.config.potentialType
  /\ handleConfigChange([potentialType |-> type])

SelectWavefunctionType(type) ==
  /\ app.config.gridSize = 4
  /\ type # app.config.wavefunctionType
  /\ handleConfigChange([wavefunctionType |-> type])

\* the custom potential field, disabled while the simulation runs: the
\* new text goes to the configuration with the panel's parameter set
EditPotentialFunction(expr) ==
  /\ app.config.potentialType = "custom-function"
  /\ ~app.isRunning
  /\ expr # app.config.customPotentialFunction
  /\ handleConfigChange([customPotentialFunction |-> expr,
                         potentialParameters |-> app.panel.potentialParameters])

\* the parameter controls under the custom potential field: the new set
\* becomes the panel's and goes to the configuration
onParametersChange(params) ==
  /\ app.config.potentialType = "custom-function"
  /\ ~app.isRunning
  /\ params # app.panel.potentialParameters
  /\ app.pending = "none"
  /\ LET config == [app.config EXCEPT !.potentialParameters = params]
     IN  app' = [app EXCEPT !.panel.potentialParameters = params,
                            !.config = config,
                            !.pending = IF DependenciesChanged(app.config, config)
                                          THEN "config" ELSE "none"]
  /\ UNCHANGED <<paramVars, solverVars, call>>

\* the sets the parameter controls hand over
PanelParameterSets ==
  { <<>>, <<Param(<<"a","m","p">>, N(1))>>, <<Param(<<"a","m","p">>, N(2))>> }

\* the wavenumber field and the grid size select: the grid of 16 points is
\* entered with the free potential and the plane wave of wavenumber 4
EditWavenumber(k0) ==
  /\ app.config.gridSize = 4
  /\ app.config.wavefunctionType = "plane-wave"
  /\ app.config.potentialType = "free"
  /\ k0 # app.config.wavefunctionK0
  /\ handleConfigChange([wavefunctionK0 |-> k0])

SelectGridSize(gridSize) ==
  /\ app.config.wavefunctionType = "plane-wave"
  /\ app.config.potentialType = "free"
  /\ app.config.wavefunctionK0 = N(4)
  /\ gridSize # app.config.gridSize
  /\ handleConfigChange([gridSize |-> gridSize])

\* Reset, on the grid of 4 points
Reset ==
  /\ app.config.gridSize = 4
  /\ handleReset

\* saving and loading, between changes of the built-in types and frames
NextApp ==
  \/ useEffectInitialize
  \/ \E type \in {"barrier", "custom-draw"} : SelectPotentialType(type)
  \/ \E type \in {"gaussian", "bound-state"} : SelectWavefunctionType(type)
  \/ \E points \in DrawingInputs : handleApplyDrawing(points)
  \/ handlePlay
  \/ handlePause
  \/ animate
  \/ handleSave
  \/ handleLoad

SpecApp == InitApp /\ [][NextApp]_vars

\* the controls: every type, the custom potential field, the grids, Play,
\* Pause and Reset
NextControl ==
  \/ useEffectInitialize
  \/ \E type \in AppPotentialTypes : SelectPotentialType(type)
  \/ \E type \in AppWavefunctionTypes : SelectWavefunctionType(type)
  \/ \E expr \in AppExprInputs : EditPotentialFunction(expr)
  \/ \E k0 \in {N(1), N(4)} : EditWavenumber(k0)
  \/ \E gridSize \in {4, 16} : SelectGridSize(gridSize)
  \/ \E points \in DrawingInputs : handleApplyDrawing(points)
  \/ handlePlay
  \/ handlePause
  \/ Reset
  \/ animate

SpecControl == InitApp /\ [][NextControl]_vars

\* a video recording between Play, Pause and the frames of the animation
NextRecording ==
  \/ useEffectInitialize
  \/ handlePlay
  \/ handlePause
  \/ animate
  \/ \E frameRate \in FrameRateInputs : \E startTime, endTime \in RecordingTimeInputs :
       handleDownloadVideo(frameRate, startTime, endTime)
  \/ recorderStart
  \/ recordFrame
  \/ recorderOnstop

SpecRecording == InitApp /\ [][NextRecording]_vars

\* the custom potential field and its parameter controls, between saving
\* and loading
NextPanel ==
  \/ useEffectInitialize
  \/ \E type \in {"barrier", "custom-function"} : SelectPotentialType(type)
  \/ \E expr \in {ExprHarmonic, ExprRamp} : EditPotentialFunction(expr)
  \/ \E params \in PanelParameterSets : onParametersChange(params)
  \/ handleSave
  \/ handleLoad

SpecPanel == InitApp /\ [][NextPanel]_vars

\* C17: loading a saved file gives back the simulation that was saved: the
\* same configuration and parameter sets, the same potential array and the
\* same wavefunction state.
C17_LoadRestoresSnapshot ==
  [][ (app.pending = "load" /\ useEffectInitialize) =>
        /\ app'.config = app.snapshot.config
        /\ app'.potential = app.snapshot.potential
        /\ state' = app.snapshot.state ]_vars

(***************************************************************************)
(* The controls' contract                                                  *)
(***************************************************************************)
\* C21: a frame at whose end checkBoundaries is true pauses the simulation,
\* every time, also after Play has resumed it from an earlier such pause.
C21_BoundaryPauses ==
  [][ (animate /\ checkBoundaries(solver, state')) => ~app'.isRunning ]_vars

\* C22: while the configuration selects a custom function that fails
\* validation, no frame steps the state.
C22_InvalidBlocksStart ==
  [][ (animate /\ ~Validated(app.config)) => state' = state ]_vars

C26_ResetRestoresInitialState ==
  [][ handleReset =>
        /\ ~app'.isRunning
        /\ state' = [InitialState(solver, app.config) EXCEPT !.time = 0] ]_vars

C29_OneDriver ==
  [][ app.isRecording => ~animate ]_vars

(***************************************************************************)
(* The panel's parameter sets                                              *)
(***************************************************************************)
\* C30: the panel's copies of the potential and the wavefunction parameter
\* sets are the configuration's, in every reachable state.
C30_PanelParametersAreConfigs ==
  /\ app.panel.potentialParameters = app.config.potentialParameters
  /\ app.panel.wavefunctionParameters = app.config.wavefunctionParameters

====
